---- MODULE Spec2Model ----
(***************************************************************************)
(* A model of the di-go dependency-injection container: the type-keyed     *)
(* registry with its hot-instance (singleton) cache, the creation pipeline *)
(* with the token-less fallback and the pointer/value coercion, and the    *)
(* breadcrumb-carrying context.                                            *)
(*                                                                         *)
(* Keys are real strings, built as the code builds them.  A Go value is a  *)
(* record: its dynamic type (name, pointer or not), its identity (the      *)
(* address of a pointer, the object a value was copied from) and its       *)
(* content (the serial number of the factory invocation that built the     *)
(* data).  An error is the sequence of the error codes of its chain,       *)
(* outermost first.                                                        *)
(***************************************************************************)
EXTENDS Integers, Sequences, FiniteSets, TLC

VARIABLES
    registrations,              \* diRegistry.registrations: key -> registration
    configurationRegistrations, \* diRegistry.configurationRegistrations
    hotInstances,               \* diRegistry.hotInstances: key -> value
    invlog,                     \* every factory invocation so far, in order
    nalloc,                     \* pointers allocated by SafeTypeAssert so far
    nregs,                      \* Register* calls made so far
    rootCrumbs,                 \* breadcrumbs of the context the client holds
    rootScope,                  \* scope (flag, configuration) of that context
    last,                       \* the last top-level call and what it returned
    gor,                        \* goroutines of the concurrent creation phase
    crashed,                    \* the Go runtime aborted on a detected map race
    injectionTokenMap,          \* the process-wide set of registered tokens
    out                         \* the last call of a library function and its result

vars == <<registrations, configurationRegistrations, hotInstances, invlog,
          nalloc, nregs, rootCrumbs, rootScope, last, gor, crashed, injectionTokenMap, out>>

\* The registry, its clients and their goroutines; the rest of the package.
container == <<registrations, configurationRegistrations, hotInstances, invlog,
               nalloc, nregs, rootCrumbs, rootScope, last, gor, crashed>>
lib == <<injectionTokenMap, out>>

-----------------------------------------------------------------------------
(* Bounds of the model *)

MaxRegs == 3
MaxCalls == 3
MaxDepth == 3
MaxCrumbs == 1
MaxGor == 2

-----------------------------------------------------------------------------
(* Error codes (error_codes.go) and errors *)

ErrorCreatingDependencyErrorCode == "ErrorCreatingDependencyErrorCode"
DependencyMissingErrorCode == "DependencyMissingErrorCode"
DependencyTypeMismatchErrorCode == "DependencyTypeMismatchErrorCode"
FactoryErrorCode == "FactoryError"
InterfaceConversionPanic == "interface conversion"
ReflectZeroValuePanic == "reflect: call of reflect.Value.Interface on zero Value"

NoErr == <<>>

\* errors.New(msg, code): an error whose chain is that one code.
NewError(code) == <<code>>

\* A plausible slip: the wrapping error does not keep the error it wraps.
WrapDropsCause(err, code) == <<code>>

\* errors.Wrap(err, msg, code): a new error of that code with err nested in it.
Wrap(err, code) == <<code>> \o err

\* (E).WithNestedError(nested): adds one more nested error to the chain.
WithNestedError(err, nested) == err \o nested

\* errors.Has(err, code): the error, or one nested in it, carries the code.
Has(err, code) == \E i \in 1..Len(err) : err[i] = code

-----------------------------------------------------------------------------
(* Types, tokens and keys (registry_types.go) *)

GoType(name, ptr) == [name |-> name, ptr |-> ptr]

AVal == GoType("di.A", FALSE)
APtr == GoType("di.A", TRUE)
BPtr == GoType("di.B", TRUE)
CfgVal == GoType("di.Cfg", FALSE)
StringType == GoType("string", FALSE)
NoConfigVal == GoType("di.NoConfig", FALSE)
NoConfigPtr == GoType("di.NoConfig", TRUE)
NoType == GoType("", FALSE)

\* reflect's name of the type: a pointer type is written with a star.
ReflectString(T) == IF T.ptr THEN "*" \o T.name ELSE T.name

\* A plausible slip: the token is left out of the type name.
TypeNameNoToken(T, token) == T.name

\* A plausible slip: the pointer is not stripped from the type name.
TypeNameKeepsPointer(T, token) ==
    IF Len(token) > 0 THEN token \o ":" \o ReflectString(T) ELSE ReflectString(T)

\* TypeName[T](tokens...): the element type's name for a pointer type, the
\* type's name otherwise, prefixed by "token:" when a non-empty token is given.
TypeName(T, token) ==
    IF Len(token) > 0 THEN token \o ":" \o T.name ELSE T.name

\* PairTypeName(first, second)
PairTypeName(first, second) == first \o ";" \o second

-----------------------------------------------------------------------------
(* Values *)

NoId == [src |-> "none", n |-> 0]
NoValue == [type |-> "", ptr |-> FALSE, id |-> NoId, content |-> 0]

\* var ct CT: the zero value of a type.
ZeroOf(T) == [type |-> T.name, ptr |-> T.ptr, id |-> NoId, content |-> 0]

\* The value a factory builds at its k-th invocation overall.
Built(T, k) ==
    [type |-> T.name, ptr |-> T.ptr, id |-> [src |-> "factory", n |-> k], content |-> k]

\* A value the client built itself, the k-th: a configuration node it hands
\* over by WithConfigNode.  Its content is no serial number of a factory
\* invocation.
ClientValue(T, k) ==
    [type |-> T.name, ptr |-> T.ptr, id |-> [src |-> "client", n |-> k], content |-> 0 - k]

\* reflect.TypeOf(i).Kind() of a value that is not the nil interface: the
\* types of the model are pointers, structs and the string.
Kind(i) ==
    IF i.ptr THEN "ptr" ELSE IF i.type = StringType.name THEN "string" ELSE "struct"

\* IsNilOrEmpty(i): the nil interface, a nil pointer, or a struct that equals
\* the zero value of its type; a value of any other kind is not empty.
IsNilOrEmpty(i) ==
    \/ i.type = ""
    \/ i.type # "" /\ Kind(i) = "ptr" /\ i.id = NoId
    \/ i.type # "" /\ Kind(i) = "struct" /\ i.content = 0

-----------------------------------------------------------------------------
(* RegistryOpts (registry_types.go) *)

\* RegistryOpts after WithToken(token) and WithConfigNodePath(path); the
\* Registry field is the one registry of the model, the ConfigNode is nil.
OptsAt(token, path) ==
    [InjectionToken |-> token, ConfigNodePath |-> path, ConfigNode |-> NoValue]

\* RegistryOpts after WithToken(token).
Opts(token) == OptsAt(token, "")

\* WithConfigNode(configNode) applied to the opts.
WithConfigNode(opts, configNode) == [opts EXCEPT !.ConfigNode = configNode]

-----------------------------------------------------------------------------
(* The world a creation call runs in and changes: the hot-instance cache,   *)
(* the log of factory invocations, the allocation counter, the heap of      *)
(* contexts (a context is its breadcrumb stack), the log of the entry-point  *)
(* calls made, the factory invocation that is running (0: none, the client  *)
(* is calling), and the factory invocations that returned an error.         *)

\* The scope of a context: whether it is scoped, and the configuration it
\* carries (NoValue: the one it was built with).
Scope(scoped, cfg) == [scoped |-> scoped, cfg |-> cfg]

NoScope == Scope(FALSE, NoValue)

World(hot, log, na, ctxs, scope) ==
    [hot |-> hot, invlog |-> log, nalloc |-> na, ctxs |-> ctxs, scope |-> scope,
     calls |-> <<>>, by |-> 0, failed |-> {}]

\* What a call gives back: a value and a nil error, an error, or a panic
\* (a fatal condition that unwinds every caller).  "overflow" is the stack
\* exhausted by nested creations.
Ok(w, v) == [w |-> w, kind |-> "ok", v |-> v, err |-> NoErr]
Fail(w, e) == [w |-> w, kind |-> "err", v |-> NoValue, err |-> e]
Panic(w, e) == [w |-> w, kind |-> "panic", v |-> NoValue, err |-> e]
Overflow(w) == [w |-> w, kind |-> "overflow", v |-> NoValue, err |-> NoErr]

-----------------------------------------------------------------------------
(* SafeTypeAssert (registry_types.go) *)

\* The direct type assertion unknownInstance.(T): the dynamic type is T.
DirectAssert(T, v) == v.type = T.name /\ v.ptr = T.ptr

\* A plausible slip: a value that cannot be converted is returned as the zero
\* value with success instead of being refused.
SafeTypeAssertLenient(T, v, na) ==
    IF DirectAssert(T, v)
    THEN [ok |-> TRUE, v |-> v, nalloc |-> na, panics |-> FALSE]
    ELSE [ok |-> TRUE, v |-> [NoValue EXCEPT !.type = T.name, !.ptr = T.ptr],
          nalloc |-> na, panics |-> FALSE]

\* SafeTypeAssert[T](unknownInstance): the direct assertion; else *X to X by
\* dereference (a copy of the pointed-to value); else X to *X by allocating a
\* new X, copying the value into it and returning its address.  The
\* dereference of a nil pointer gives reflect's zero Value, and Interface()
\* on it panics.
SafeTypeAssert(T, v, na) ==
    IF DirectAssert(T, v)
    THEN [ok |-> TRUE, v |-> v, nalloc |-> na, panics |-> FALSE]
    ELSE IF v.type = ""
    THEN [ok |-> FALSE, v |-> NoValue, nalloc |-> na, panics |-> FALSE]
    ELSE IF v.ptr /\ ~T.ptr /\ v.type = T.name
    THEN IF v.id = NoId
         THEN [ok |-> FALSE, v |-> NoValue, nalloc |-> na, panics |-> TRUE]
         ELSE [ok |-> TRUE, v |-> [v EXCEPT !.ptr = FALSE], nalloc |-> na,
               panics |-> FALSE]
    ELSE IF T.ptr /\ ~v.ptr /\ v.type = T.name
    THEN [ok |-> TRUE,
          v |-> [v EXCEPT !.ptr = TRUE, !.id = [src |-> "reflect.New", n |-> na + 1]],
          nalloc |-> na + 1, panics |-> FALSE]
    ELSE [ok |-> FALSE, v |-> NoValue, nalloc |-> na, panics |-> FALSE]

-----------------------------------------------------------------------------
(* The hot-instance cache (registry.go) *)

\* A plausible slip: the configuration node path of the opts is part of the
\* cache key.
HotKeyWithPath(opts, typeName) ==
    (IF opts.ConfigNodePath # "" THEN opts.ConfigNodePath \o "@" ELSE "")
    \o (IF opts.InjectionToken # "" THEN opts.InjectionToken \o ":" \o typeName
        ELSE typeName)

\* The cache key of GetHotInstance and SetHotInstance.
HotKey(opts, typeName) ==
    IF opts.InjectionToken # ""
    THEN opts.InjectionToken \o ":" \o typeName
    ELSE typeName

\* diRegistry.GetHotInstance: the cached value, or a not-registered error.
GetHotInstance(hot, opts, typeName) ==
    IF HotKey(opts, typeName) \in DOMAIN hot
    THEN [v |-> hot[HotKey(opts, typeName)], err |-> NoErr]
    ELSE [v |-> NoValue, err |-> NewError(DependencyMissingErrorCode)]

\* diRegistry.SetHotInstance: stores the value, replacing what is there.
SetHotInstance(hot, opts, typeName, instance) ==
    (HotKey(opts, typeName) :> instance) @@ hot

-----------------------------------------------------------------------------
(* The context: context.Clone, context.AppendBreadcrumb and the scoping      *)
(* methods that Create calls on it.                                         *)

\* A plausible slip: the "clone" is the context itself.
CloneAlias(w, ctx) == [w |-> w, ctx |-> ctx]

\* context.Clone: a new context built from four fields of the old one, the
\* inner context, the raw and the decoded configuration and a copy of the
\* breadcrumb stack; it copies nothing else, so the clone is not scoped.
Clone(w, ctx) ==
    [w |-> [w EXCEPT !.ctxs = Append(w.ctxs, w.ctxs[ctx]),
                     !.scope = Append(w.scope, Scope(FALSE, w.scope[ctx].cfg))],
     ctx |-> Len(w.ctxs) + 1]

\* context.AppendBreadcrumb: nothing for the empty token, else pushes it.
AppendBreadcrumb(w, ctx, token) ==
    IF Len(token) = 0 THEN w
    ELSE [w EXCEPT !.ctxs[ctx] = Append(w.ctxs[ctx], token)]

\* Context.ScopedConfiguration(node): the context carries the node as its
\* configuration and is scoped from now on.
ScopedConfiguration(w, ctx, node) == [w EXCEPT !.scope[ctx] = Scope(TRUE, node)]

\* Context.IsScoped()
IsScoped(w, ctx) == w.scope[ctx].scoped

\* Context.ClearBreadcrumbs(): the breadcrumb stack is emptied.
ClearBreadcrumbs(w, ctx) == [w EXCEPT !.ctxs[ctx] = <<>>]

\* Context.ClearScoped(): the context is not scoped any more; it keeps its
\* configuration.
ClearScoped(w, ctx) == [w EXCEPT !.scope[ctx].scoped = FALSE]

-----------------------------------------------------------------------------
(* Registrations and factories.                                             *)
(*                                                                          *)
(* A registration is the stored creator: the client's factory fn, the type  *)
(* name the hot-memory wrapper captured, and the type the factory returns.  *)
(* A factory is described by what it does: the creation calls it makes on   *)
(* the context it is given, in order, returning the first error it gets;    *)
(* then either an error of its own, or a newly built value.                 *)

Fn(deps, fails) == [deps |-> deps, fails |-> fails]

\* A creation call a factory makes: the entry point, its type parameters,
\* WithToken(token) and WithConfigNode(node) (NoValue: no such option).
DepWithConfigNode(op, T, CT, token, node) ==
    [op |-> op, T |-> T, CT |-> CT, tok |-> token, node |-> node]

Dep(op, T, CT, token) == DepWithConfigNode(op, T, CT, token, NoValue)

Registration(fid, fn, rtype, ctype, typeName, wrapped) ==
    [fid |-> fid, fn |-> fn, rtype |-> rtype, ctype |-> ctype,
     typeName |-> typeName, hot |-> wrapped]

\* One entry of the invocation log: the factory, the type name its hot-memory
\* wrapper captured, the breadcrumbs and the scope of the context, the token,
\* the configuration node path and the configuration node of the opts it
\* was handed, the content of the configuration value it was handed (0: none).
Invocation(fid, typeName, crumbs, scope, opts, cfg) ==
    [fid |-> fid, typeName |-> typeName, crumbs |-> crumbs, scope |-> scope,
     tok |-> opts.InjectionToken, path |-> opts.ConfigNodePath,
     node |-> opts.ConfigNode, cfg |-> cfg]

\* One entry of the call log: an entry-point call, the factory invocation that
\* made it (0: the client), the breadcrumbs of the caller's context before it
\* and after it returned, the scope of the caller's context.
CallEntry(op, T, opts, by, before, after, kind, scope) ==
    [op |-> op, T |-> T, tok |-> opts.InjectionToken, node |-> opts.ConfigNode,
     by |-> by, before |-> before, after |-> after, kind |-> kind, scope |-> scope]

RECURSIVE RunDeps(_, _, _, _, _, _)
RECURSIVE RunFn(_, _, _, _, _, _)
RECURSIVE Creator(_, _, _, _, _, _)
RECURSIVE RegistryCreate(_, _, _, _, _, _)
RECURSIVE RegistryCreateConfiguration(_, _, _, _, _)
RECURSIVE createSingleWithToken(_, _, _, _, _)
RECURSIVE createSingleConfigurationWithToken(_, _, _, _, _)
RECURSIVE createPairWithToken(_, _, _, _, _, _)
RECURSIVE Create(_, _, _, _, _)
RECURSIVE CreateConfiguration(_, _, _, _, _)
RECURSIVE CreatePair(_, _, _, _, _, _)
RECURSIVE Call(_, _, _, _, _)

\* A creation call made by a factory on the context it was given: one of
\* the three entry points, or the Create method of the registry of its opts
\* for the type name of T.
Call(w, ctx, d, opts, fuel) ==
    LET mine == WithConfigNode(Opts(d.tok), d.node)
    IN IF d.op = "Create" THEN Create(w, ctx, d.T, mine, fuel)
       ELSE IF d.op = "CreateConfiguration"
       THEN CreateConfiguration(w, ctx, d.T, mine, fuel)
       ELSE IF d.op = "CreatePair"
       THEN CreatePair(w, ctx, d.T, d.CT, mine, fuel)
       ELSE RegistryCreate(w, ctx, TypeName(d.T, d.tok), NoValue, opts, fuel)

\* The factory after its i-th creation call gave r: an error or a panic ends
\* the factory with that outcome, else the next call is made.
DepReturned(r, deps, i, ctx, opts, fuel) ==
    IF r.kind # "ok" THEN r ELSE RunDeps(r.w, deps, i + 1, ctx, opts, fuel)

\* The creation calls of a factory, from the i-th on.
RunDeps(w, deps, i, ctx, opts, fuel) ==
    IF i > Len(deps) THEN Ok(w, NoValue)
    ELSE DepReturned(Call(w, ctx, deps[i], opts, fuel), deps, i, ctx, opts, fuel)

\* The end of a factory whose creation calls gave r: the error of the call
\* that failed, its own error, or the value it builds, the k-th of the
\* registry.  by is the invocation that was running when this one began.
FnReturn(r, reg, k, by) ==
    IF r.kind = "err"
    THEN Fail([r.w EXCEPT !.by = by, !.failed = @ \cup {k}], r.err)
    ELSE IF r.kind # "ok" THEN r
    ELSE IF reg.fn.fails
    THEN Fail([r.w EXCEPT !.by = by, !.failed = @ \cup {k}], NewError(FactoryErrorCode))
    ELSE Ok([r.w EXCEPT !.by = by], Built(reg.rtype, k))

\* One invocation of the client's factory fn(ctx, opts[, c]).
RunFn(w, reg, ctx, opts, c, fuel) ==
    IF fuel = 0 THEN Overflow(w)
    ELSE FnReturn(
             RunDeps([w EXCEPT !.invlog = Append(w.invlog,
                         Invocation(reg.fid, reg.typeName, w.ctxs[ctx],
                                    w.scope[ctx], opts, c.content)),
                               !.by = Len(w.invlog) + 1],
                     reg.fn.deps, 1, ctx, opts, fuel - 1),
             reg, Len(w.invlog) + 1, w.by)

\* The c.(CT) of fromHotMemoryRegisterWithConfig: a creator that takes a
\* configuration panics on one of another type.
ConfigAccepted(reg, c) == reg.ctype = NoType \/ DirectAssert(reg.ctype, c)

\* The creator after fn gave r: an error is returned and nothing is stored;
\* the wrapper stores a value by SetHotInstance and returns it.
Stored(r, reg, opts) ==
    IF r.kind # "ok" \/ ~reg.hot THEN r
    ELSE Ok([r.w EXCEPT !.hot = SetHotInstance(r.w.hot, opts, reg.typeName, r.v)], r.v)

\* The stored creator.  For the Register* functions it is the closure of
\* fromHotMemoryRegisterNoConfig / fromHotMemoryRegisterWithConfig: probe the
\* cache, return a hit; on a miss invoke fn, return its error or store and
\* return its value.  A creator handed to diRegistry.Register directly is fn.
Creator(w, reg, ctx, opts, c, fuel) ==
    LET g == GetHotInstance(w.hot, opts, reg.typeName)
    IN IF reg.hot /\ g.err /= NoErr /\ ~Has(g.err, DependencyMissingErrorCode)
       THEN Fail(w, g.err)
       ELSE IF reg.hot /\ g.err = NoErr THEN Ok(w, g.v)
       ELSE IF reg.hot /\ ~ConfigAccepted(reg, c)
       THEN Panic(w, NewError(InterfaceConversionPanic))
       ELSE Stored(RunFn(w, reg, ctx, opts, c, fuel), reg, opts)

\* diRegistry.Create
RegistryCreate(w, ctx, typeNameOf, config, opts, fuel) ==
    IF typeNameOf \notin DOMAIN registrations
    THEN Fail(w, NewError(DependencyMissingErrorCode))
    ELSE Creator(w, registrations[typeNameOf], ctx, opts, config, fuel)

\* diRegistry.CreateConfiguration
RegistryCreateConfiguration(w, ctx, typeNameOf, opts, fuel) ==
    IF typeNameOf \notin DOMAIN configurationRegistrations
    THEN Fail(w, NewError(DependencyMissingErrorCode))
    ELSE Creator(w, configurationRegistrations[typeNameOf], ctx, opts, NoValue, fuel)

\* The type assertion that ends a creation: the panic of SafeTypeAssert
\* itself, the value, or the fatal type-mismatch condition.
Asserted(w, a) ==
    IF a.panics THEN Panic(w, NewError(ReflectZeroValuePanic))
    ELSE IF a.ok THEN Ok([w EXCEPT !.nalloc = a.nalloc], a.v)
    ELSE Panic(w, NewError(DependencyTypeMismatchErrorCode))

\* The end of a creation that retried without the token: r2 is what the
\* registry gave for the unqualified key, err the first error.
SecondTry(r2, err, T) ==
    IF r2.kind \in {"panic", "overflow"} THEN r2
    ELSE IF r2.kind = "err"
    THEN Fail(r2.w, WithNestedError(Wrap(r2.err, ErrorCreatingDependencyErrorCode), err))
    ELSE Asserted(r2.w, SafeTypeAssert(T, r2.v, r2.w.nalloc))

\* createSingleWithToken[T] after the registry gave r1 for the key with the
\* token: an error that has not the not-registered code is returned wrapped;
\* one that has it is retried with the unqualified key.
FirstTry(r1, ctx, T, opts, fuel) ==
    IF r1.kind \in {"panic", "overflow"} THEN r1
    ELSE IF r1.kind = "err" /\ ~Has(r1.err, DependencyMissingErrorCode)
    THEN Fail(r1.w, Wrap(r1.err, ErrorCreatingDependencyErrorCode))
    ELSE IF Has(r1.err, DependencyMissingErrorCode)
    THEN SecondTry(RegistryCreate(r1.w, ctx, TypeName(T, ""), NoValue, opts, fuel),
                   r1.err, T)
    ELSE Asserted(r1.w, SafeTypeAssert(T, r1.v, r1.w.nalloc))

\* createSingleWithToken[T]
createSingleWithToken(w, ctx, T, opts, fuel) ==
    FirstTry(RegistryCreate(w, ctx, TypeName(T, opts.InjectionToken), NoValue, opts, fuel),
             ctx, T, opts, fuel)

\* createSingleConfigurationWithToken[CT] after the registry gave r1: as
\* createSingleWithToken, but with an empty token a not-registered error is
\* returned without a retry.
FirstTryConfiguration(r1, ctx, CT, opts, fuel) ==
    IF r1.kind \in {"panic", "overflow"} THEN r1
    ELSE IF r1.kind = "err"
            /\ (~Has(r1.err, DependencyMissingErrorCode) \/ Len(opts.InjectionToken) = 0)
    THEN Fail(r1.w, Wrap(r1.err, ErrorCreatingDependencyErrorCode))
    ELSE IF Has(r1.err, DependencyMissingErrorCode)
    THEN SecondTry(RegistryCreateConfiguration(r1.w, ctx, TypeName(CT, ""), opts, fuel),
                   r1.err, CT)
    ELSE Asserted(r1.w, SafeTypeAssert(CT, r1.v, r1.w.nalloc))

\* A plausible slip: the configuration node of the opts is not looked at.
ConfigNodeIgnored(w, CT, opts) ==
    [ok |-> FALSE, v |-> NoValue, nalloc |-> w.nalloc, panics |-> FALSE]

\* The first branch of createSingleConfigurationWithToken[CT]: a
\* configuration node of the opts that is neither nil nor empty and that
\* SafeTypeAssert[CT] accepts.
ConfigNodeAsCT(w, CT, opts) ==
    IF IsNilOrEmpty(opts.ConfigNode)
    THEN [ok |-> FALSE, v |-> NoValue, nalloc |-> w.nalloc, panics |-> FALSE]
    ELSE SafeTypeAssert(CT, opts.ConfigNode, w.nalloc)

\* createSingleConfigurationWithToken[CT]: the configuration node of the
\* opts, if it is one of type CT, is returned at once; else the registry is
\* asked.
createSingleConfigurationWithToken(w, ctx, CT, opts, fuel) ==
    LET node == ConfigNodeAsCT(w, CT, opts)
    IN IF node.panics THEN Panic(w, NewError(ReflectZeroValuePanic))
       ELSE IF node.ok THEN Ok([w EXCEPT !.nalloc = node.nalloc], node.v)
       ELSE FirstTryConfiguration(
                RegistryCreateConfiguration(w, ctx, TypeName(CT, opts.InjectionToken),
                                            opts, fuel),
                ctx, CT, opts, fuel)

\* createPairWithToken[T, CT] after the instance side gave ri: the value is
\* narrowed by the direct type assertion.
PairInstance(ri, T) ==
    IF ri.kind \in {"panic", "overflow"} THEN ri
    ELSE IF ri.kind = "err"
    THEN Fail(ri.w, Wrap(ri.err, ErrorCreatingDependencyErrorCode))
    ELSE IF ~DirectAssert(T, ri.v)
    THEN Panic(ri.w, NewError(DependencyTypeMismatchErrorCode))
    ELSE Ok(ri.w, ri.v)

\* A plausible slip: an error of the configuration side is dropped and the
\* instance side is created with the zero configuration.
PairConfigurationDropsError(rc, ctx, T, CT, opts, fuel) ==
    IF rc.kind \in {"panic", "overflow"} THEN rc
    ELSE PairInstance(
             RegistryCreate(rc.w, ctx,
                 PairTypeName(TypeName(T, opts.InjectionToken),
                              TypeName(CT, opts.InjectionToken)),
                 IF rc.kind = "err" THEN ZeroOf(CT) ELSE rc.v, opts, fuel),
             T)

\* createPairWithToken[T, CT] after the configuration side gave rc: its
\* error is returned, its value is narrowed by the direct type assertion and
\* handed to the instance side.
PairConfiguration(rc, ctx, T, CT, opts, fuel) ==
    IF rc.kind \in {"panic", "overflow"} THEN rc
    ELSE IF rc.kind = "err"
    THEN Fail(rc.w, Wrap(rc.err, ErrorCreatingDependencyErrorCode))
    ELSE IF ~DirectAssert(CT, rc.v)
    THEN Panic(rc.w, NewError(DependencyTypeMismatchErrorCode))
    ELSE PairInstance(
             RegistryCreate(rc.w, ctx,
                 PairTypeName(TypeName(T, opts.InjectionToken),
                              TypeName(CT, opts.InjectionToken)),
                 rc.v, opts, fuel),
             T)

\* createPairWithToken[T, CT]: the configuration side first unless CT is the
\* NoConfig sentinel, then the instance side with that configuration.
createPairWithToken(w, ctx, T, CT, opts, fuel) ==
    PairConfiguration(
        IF CT /= NoConfigVal /\ CT /= NoConfigPtr
        THEN RegistryCreateConfiguration(w, ctx,
                 PairTypeName(TypeName(CT, opts.InjectionToken),
                              TypeName(T, opts.InjectionToken)),
                 opts, fuel)
        ELSE Ok(w, ZeroOf(CT)),
        ctx, T, CT, opts, fuel)

\* The call log with this call added, once it has returned.
Logged(r, w, ctx, op, T, opts, fuel) ==
    [r EXCEPT !.w.calls = Append(r.w.calls,
        CallEntry(op, T, opts, w.by,
                  w.ctxs[ctx], r.w.ctxs[ctx], r.kind, w.scope[ctx]))]

\* The clone of Create[T] for a configuration node of the opts that is
\* neither nil nor empty: it is scoped to the node, and when the caller's
\* context is scoped already its breadcrumbs and its scoped mark are cleared.
ScopedToConfigNode(w, ctx, injectionCtx, opts) ==
    LET scoped == ScopedConfiguration(w, injectionCtx, opts.ConfigNode)
    IN IF IsScoped(w, ctx)
       THEN ClearScoped(ClearBreadcrumbs(scoped, injectionCtx), injectionCtx)
       ELSE scoped

\* Create[T](ctx, options...)
Create(w, ctx, T, opts, fuel) ==
    LET c == Clone(w, ctx)
        w1 == IF ~IsNilOrEmpty(opts.ConfigNode)
              THEN ScopedToConfigNode(c.w, ctx, c.ctx, opts)
              ELSE c.w
        w2 == AppendBreadcrumb(w1, c.ctx, opts.InjectionToken)
    IN Logged(createSingleWithToken(w2, c.ctx, T, opts, fuel),
              w, ctx, "Create", T, opts, fuel)

\* CreateConfiguration[T](ctx, options...)
CreateConfiguration(w, ctx, T, opts, fuel) ==
    LET c == Clone(w, ctx)
    IN Logged(createSingleConfigurationWithToken(c.w, c.ctx, T, opts, fuel),
              w, ctx, "CreateConfiguration", T, opts, fuel)

\* CreatePair[T, CT](ctx, options...)
CreatePair(w, ctx, T, CT, opts, fuel) ==
    LET c == Clone(w, ctx)
        w2 == AppendBreadcrumb(c.w, c.ctx, opts.InjectionToken)
    IN Logged(createPairWithToken(w2, c.ctx, T, CT, opts, fuel),
              w, ctx, "CreatePair", T, opts, fuel)

-----------------------------------------------------------------------------
(* The state and the client's operations *)

Tokens == {"", "a", "b"}

\* The factories of the clients modelled: one that builds its value, one
\* that returns an error of its own, one that first creates a *B with
\* Create[*B](ctx), one that first asks the registry of its opts for "di.B",
\* one that creates two *B, one after the other, under two tokens, and one
\* that creates a configuration and a pair.
FnOk == Fn(<<>>, FALSE)
FnFails == Fn(<<>>, TRUE)
FnNeedsB == Fn(<<Dep("Create", BPtr, NoType, "")>>, FALSE)
FnNeedsA == Fn(<<Dep("Create", APtr, NoType, "")>>, FALSE)
FnAsksRegistryForB == Fn(<<Dep("Registry.Create", BPtr, NoType, "")>>, FALSE)
FnSiblings ==
    Fn(<<Dep("Create", BPtr, NoType, "a"), Dep("Create", BPtr, NoType, "b")>>, FALSE)
FnNeedsCfgAndPair ==
    Fn(<<Dep("CreateConfiguration", CfgVal, NoType, "b"),
         Dep("CreatePair", BPtr, CfgVal, "a")>>, FALSE)

\* A factory that creates a *B under a token with a configuration node of
\* its own.
FnScopesItsChild ==
    Fn(<<DepWithConfigNode("Create", BPtr, NoType, "b", ClientValue(CfgVal, 2))>>, FALSE)

\* out before any call of a library function: n counts the calls.
NoOut == [n |-> 0, op |-> ""]

NoFid == [ns |-> "", name |-> "", tok |-> "", key |-> "", ver |-> 0]

\* last before any call: n counts the calls; op, T, CT and tok are the
\* call; reg is the factory that was registered, in the namespace of the
\* entry point, for exactly that type name and token when the call was made
\* (NoFid: none), regs how many Register* calls had been made; kind, v and
\* err are what it returned; from is the first entry of the invocation log
\* that it could have added, calls its call log, failed its factory
\* invocations that returned an error.
NoCall ==
    [n |-> 0, op |-> "", T |-> NoType, CT |-> NoType, tok |-> "", path |-> "",
     node |-> NoValue, reg |-> NoFid,
     regs |-> 0, kind |-> "", v |-> NoValue, err |-> NoErr, from |-> 0, calls |-> <<>>,
     failed |-> {}]

Init ==
    /\ registrations = <<>>
    /\ configurationRegistrations = <<>>
    /\ hotInstances = <<>>
    /\ invlog = <<>>
    /\ nalloc = 0
    /\ nregs = 0
    /\ rootCrumbs = <<>>
    /\ rootScope = NoScope
    /\ last = NoCall
    /\ gor = <<>>
    /\ crashed = FALSE
    /\ injectionTokenMap = {}
    /\ out = NoOut

\* The identity of a factory handed to a Register* call: the namespace, the
\* type and the token it was given, the key it is stored under, and how many
\* factories have been registered under that key, this one included.
Fid(ns, T, token, regs, key) ==
    [ns |-> ns, name |-> T.name, tok |-> token, key |-> key,
     ver |-> IF key \in DOMAIN regs THEN regs[key].fid.ver + 1 ELSE 1]

\* Every goroutine of the creation phase has returned (or none was started).
Quiet == \A g \in DOMAIN gor : gor[g].pc = "done"

CanRegister == ~crashed /\ nregs < MaxRegs /\ gor = <<>>

\* A plausible slip: a key that is registered keeps its first creator.
RegistryRegisterKeepsFirst(regs, typeNameOf, reg) == regs @@ (typeNameOf :> reg)

\* diRegistry.Register / diRegistry.RegisterConfiguration: last write wins.
RegistryRegister(regs, typeNameOf, reg) == (typeNameOf :> reg) @@ regs

\* Register[T](fn, WithToken(token)): registerSingleWithToken
CallRegister(T, token, fn) ==
    /\ CanRegister
    /\ LET tType == TypeName(T, token)
       IN registrations' = RegistryRegister(registrations, tType,
              Registration(Fid("inst", T, token, registrations, tType), fn, T, NoType,
                           tType, TRUE))
    /\ nregs' = nregs + 1
    /\ UNCHANGED lib
    /\ UNCHANGED <<configurationRegistrations, hotInstances, invlog, nalloc,
                   rootCrumbs, rootScope, last, gor, crashed>>

\* RegisterConfiguration[T](fn, WithToken(token)):
\* registerSingleConfigurationWithToken
CallRegisterConfiguration(T, token, fn) ==
    /\ CanRegister
    /\ LET tType == TypeName(T, token)
       IN configurationRegistrations' =
              RegistryRegister(configurationRegistrations, tType,
                  Registration(Fid("cfg", T, token, configurationRegistrations, tType),
                               fn, T, NoType, tType, TRUE))
    /\ nregs' = nregs + 1
    /\ UNCHANGED lib
    /\ UNCHANGED <<registrations, hotInstances, invlog, nalloc,
                   rootCrumbs, rootScope, last, gor, crashed>>

\* RegisterPair[T, CT](fn, fnCT, WithToken(token)): registerPairWithToken
CallRegisterPair(T, CT, token, fn, fnCT) ==
    /\ CanRegister
    /\ LET ctType == TypeName(CT, token)
           tType == TypeName(T, token)
           cfgName == PairTypeName(ctType, tType)
           instName == PairTypeName(tType, ctType)
       IN /\ configurationRegistrations' =
                 RegistryRegister(configurationRegistrations, cfgName,
                     Registration(
                         Fid("paircfg", CT, token, configurationRegistrations, cfgName),
                         fnCT, CT, NoType, cfgName, TRUE))
          /\ registrations' =
                 RegistryRegister(registrations, instName,
                     Registration(Fid("pair", T, token, registrations, instName),
                                  fn, T, CT, instName, TRUE))
    /\ nregs' = nregs + 1
    /\ UNCHANGED lib
    /\ UNCHANGED <<hotInstances, invlog, nalloc, rootCrumbs, rootScope, last, gor, crashed>>

\* Instance.Register(TypeName[T](token), fn, opts) with an untyped creator
\* that returns a string.
CallRegistryRegister(T, token, fn) ==
    /\ CanRegister
    /\ LET tType == TypeName(T, token)
       IN registrations' = RegistryRegister(registrations, tType,
              Registration(Fid("raw", T, token, registrations, tType), fn, StringType,
                           NoType, "", FALSE))
    /\ nregs' = nregs + 1
    /\ UNCHANGED lib
    /\ UNCHANGED <<configurationRegistrations, hotInstances, invlog, nalloc,
                   rootCrumbs, rootScope, last, gor, crashed>>

\* Instance.RegisterConfiguration(TypeName[T](token), fn, opts) with an
\* untyped creator that returns a T.
CallRegistryRegisterConfiguration(T, token, fn) ==
    /\ CanRegister
    /\ LET tType == TypeName(T, token)
       IN configurationRegistrations' =
              RegistryRegister(configurationRegistrations, tType,
                  Registration(Fid("rawcfg", T, token, configurationRegistrations, tType),
                               fn, T, NoType, "", FALSE))
    /\ nregs' = nregs + 1
    /\ UNCHANGED lib
    /\ UNCHANGED <<registrations, hotInstances, invlog, nalloc,
                   rootCrumbs, rootScope, last, gor, crashed>>

\* Instance.SetHotInstance(ctx, &RegistryOpts{InjectionToken: token},
\* typeName, instance) by the client.
CallRegistrySetHotInstance(token, typeName, instance) ==
    /\ ~crashed /\ Quiet
    /\ hotInstances' = SetHotInstance(hotInstances, Opts(token), typeName, instance)
    /\ UNCHANGED lib
    /\ UNCHANGED <<registrations, configurationRegistrations, invlog, nalloc, nregs,
                   rootCrumbs, rootScope, last, gor, crashed>>

\* ctx.AppendBreadcrumb(token) by the client, on the context it holds.
CallAppendBreadcrumb(token) ==
    /\ ~crashed /\ Quiet
    /\ token # ""
    /\ Len(rootCrumbs) < MaxCrumbs
    /\ rootCrumbs' = AppendBreadcrumb(World(<<>>, <<>>, 0, <<rootCrumbs>>, <<rootScope>>),
                                      1, token).ctxs[1]
    /\ UNCHANGED lib
    /\ UNCHANGED <<registrations, configurationRegistrations, hotInstances, invlog,
                   nalloc, nregs, rootScope, last, gor, crashed>>

\* ctx.ScopedConfiguration(node) by the client, on the context it holds.
CallScopedConfiguration(node) ==
    /\ ~crashed /\ Quiet
    /\ ~rootScope.scoped
    /\ rootScope' = ScopedConfiguration(World(<<>>, <<>>, 0, <<rootCrumbs>>, <<rootScope>>),
                                        1, node).scope[1]
    /\ UNCHANGED lib
    /\ UNCHANGED <<registrations, configurationRegistrations, hotInstances, invlog,
                   nalloc, nregs, rootCrumbs, last, gor, crashed>>

\* The world at the start of a top-level call: the client's context is 1.
Now == World(hotInstances, invlog, nalloc, <<rootCrumbs>>, <<rootScope>>)

CanCall == ~crashed /\ Quiet /\ last.n < MaxCalls

\* The factory the registry holds under the key that the entry point op
\* builds from T, CT and the token: the type name of T, and for CreatePair
\* the pair name of T and CT, in the map of the instances or, for
\* CreateConfiguration, of the configurations; NoFid if the key is absent.
Bound(op, T, CT, token) ==
    LET cfgs == {"CreateConfiguration", "Registry.CreateConfiguration"}
        regs == IF op \in cfgs THEN configurationRegistrations ELSE registrations
        key == IF op = "CreatePair"
               THEN PairTypeName(TypeName(T, token), TypeName(CT, token))
               ELSE TypeName(T, token)
    IN IF key \in DOMAIN regs THEN regs[key].fid ELSE NoFid

\* The state after a top-level call that gave r.
Returned(op, T, CT, opts, r) ==
    /\ hotInstances' = r.w.hot
    /\ invlog' = r.w.invlog
    /\ nalloc' = r.w.nalloc
    /\ rootCrumbs' = r.w.ctxs[1]
    /\ rootScope' = r.w.scope[1]
    /\ crashed' = (r.kind = "overflow")
    /\ last' = [n |-> last.n + 1, op |-> op, T |-> T, CT |-> CT,
                tok |-> opts.InjectionToken, path |-> opts.ConfigNodePath,
                node |-> opts.ConfigNode, reg |-> Bound(op, T, CT, opts.InjectionToken),
                regs |-> nregs,
                kind |-> r.kind, v |-> r.v, err |-> r.err,
                from |-> Len(invlog) + 1, calls |-> r.w.calls, failed |-> r.w.failed]
    /\ UNCHANGED lib
    /\ UNCHANGED <<registrations, configurationRegistrations, nregs, gor>>

\* Create[T](ctx, WithToken(token))
CallCreate(T, token) ==
    /\ CanCall
    /\ LET r == Create(Now, 1, T, Opts(token), MaxDepth)
       IN Returned("Create", T, NoType, Opts(token), r)

\* CreateConfiguration[T](ctx, WithToken(token))
CallCreateConfiguration(T, token) ==
    /\ CanCall
    /\ LET r == CreateConfiguration(Now, 1, T, Opts(token), MaxDepth)
       IN Returned("CreateConfiguration", T, NoType, Opts(token), r)

\* CreatePair[T, CT](ctx, WithToken(token))
CallCreatePair(T, CT, token) ==
    /\ CanCall
    /\ LET r == CreatePair(Now, 1, T, CT, Opts(token), MaxDepth)
       IN Returned("CreatePair", T, CT, Opts(token), r)

\* Create[T](ctx, WithToken(token), WithConfigNodePath(path))
CallCreateWithConfigNodePath(T, token, path) ==
    /\ CanCall
    /\ LET r == Create(Now, 1, T, OptsAt(token, path), MaxDepth)
       IN Returned("Create", T, NoType, OptsAt(token, path), r)

\* Create[T](ctx, WithToken(token), WithConfigNode(node))
CallCreateWithConfigNode(T, token, node) ==
    /\ CanCall
    /\ LET opts == WithConfigNode(Opts(token), node)
           r == Create(Now, 1, T, opts, MaxDepth)
       IN Returned("Create", T, NoType, opts, r)

\* CreateConfiguration[T](ctx, WithToken(token), WithConfigNode(node))
CallCreateConfigurationWithConfigNode(T, token, node) ==
    /\ CanCall
    /\ LET opts == WithConfigNode(Opts(token), node)
           r == CreateConfiguration(Now, 1, T, opts, MaxDepth)
       IN Returned("CreateConfiguration", T, NoType, opts, r)

\* Instance.Create(ctx, TypeName[T](token), struct{}{},
\* &RegistryOpts{InjectionToken: token}) by the client: the method of the
\* registry, on the client's own context.
CallRegistryCreate(T, token) ==
    /\ CanCall
    /\ LET r == RegistryCreate(Now, 1, TypeName(T, token), NoValue, Opts(token), MaxDepth)
       IN Returned("Registry.Create", T, NoType, Opts(token), r)

\* Instance.CreateConfiguration(ctx, TypeName[T](token),
\* &RegistryOpts{InjectionToken: token}) by the client.
CallRegistryCreateConfiguration(T, token) ==
    /\ CanCall
    /\ LET r == RegistryCreateConfiguration(Now, 1, TypeName(T, token), Opts(token),
                                            MaxDepth)
       IN Returned("Registry.CreateConfiguration", T, NoType, Opts(token), r)

-----------------------------------------------------------------------------
(* Spec: the client registers factories of one type, as a value type or as  *)
(* a pointer type, without a token or under one of two tokens, and creates  *)
(* it, one call after the other, in any order.                              *)

Next ==
    \/ \E T \in {AVal, APtr}, token \in Tokens : CallRegister(T, token, FnOk)
    \/ \E T \in {AVal, APtr}, token \in Tokens : CallCreate(T, token)

Spec == Init /\ [][Next]_vars

-----------------------------------------------------------------------------
(* SpecErr: creation of *A when its factories can fail: by an error of      *)
(* their own, by a dependency *B that may not be registered, or by          *)
(* returning a string where an *A is expected; and creation of A when the   *)
(* client has stored a nil *A in the cache.                                 *)

NextErr ==
    \/ \E token \in {"", "a"}, fn \in {FnOk, FnFails} : CallRegister(APtr, token, fn)
    \/ \E fn \in {FnNeedsB, FnAsksRegistryForB} : CallRegister(APtr, "a", fn)
    \/ CallRegister(BPtr, "", FnOk)
    \/ \E token \in {"", "a"} : CallRegistryRegister(APtr, token, FnOk)
    \/ \E token \in {"", "a"} : CallCreate(APtr, token)
    \/ CallRegistrySetHotInstance("", TypeName(APtr, ""), ZeroOf(APtr))
    \/ CallCreate(AVal, "")

SpecErr == Init /\ [][NextErr]_vars

-----------------------------------------------------------------------------
(* SpecStore: what the creations of *A store in the cache when its          *)
(* factories can fail, by an error of their own or by the error that the    *)
(* registry gives them for a *B that is not registered.  The client stores  *)
(* nothing in the cache itself.                                             *)

NextStore ==
    \/ \E token \in {"", "a"}, fn \in {FnOk, FnFails, FnAsksRegistryForB} :
            CallRegister(APtr, token, fn)
    \/ \E token \in {"", "a"} : CallCreate(APtr, token)

SpecStore == Init /\ [][NextStore]_vars

-----------------------------------------------------------------------------
(* SpecRe: registration and re-registration of an instance factory and of a *)
(* configuration factory, of two types, between creations.  The client     *)
(* also calls the methods of the registry themselves: it registers a        *)
(* configuration creator of its own, and asks the registry for an instance  *)
(* or for a configuration.                                                  *)

NextRe ==
    \/ \E token \in {"", "a"} : CallRegister(APtr, token, FnOk)
    \/ \E token \in {"", "a"} : CallRegisterConfiguration(CfgVal, token, FnOk)
    \/ \E token \in {"", "a"} : CallCreate(APtr, token)
    \/ \E token \in {"", "a"} : CallCreateConfiguration(CfgVal, token)
    \/ \E token \in {"", "a"} : CallRegistryRegisterConfiguration(CfgVal, token, FnOk)
    \/ \E token \in {"", "a"} : CallRegistryCreate(APtr, token)
    \/ \E token \in {"", "a"} : CallRegistryCreateConfiguration(CfgVal, token)

SpecRe == Init /\ [][NextRe]_vars

-----------------------------------------------------------------------------
(* SpecNs: instance factories, configuration factories and pairs registered *)
(* for one type and one configuration type, and the three entry points;     *)
(* CreateConfiguration also with a configuration node of the type asked     *)
(* for in the opts.                                                         *)

NextNs ==
    \/ \E token \in {"", "a"} : CallRegister(APtr, token, FnOk)
    \/ \E token \in {"", "a"} : CallRegisterConfiguration(APtr, token, FnOk)
    \/ \E token \in {"", "a"} : CallRegisterPair(APtr, CfgVal, token, FnOk, FnOk)
    \/ \E token \in {"", "a"} : CallCreate(APtr, token)
    \/ \E token \in {"", "a"} : CallCreateConfiguration(APtr, token)
    \/ \E token \in {"", "a"} : CallCreatePair(APtr, CfgVal, token)
    \/ \E token \in {"", "a"} :
          CallCreateConfigurationWithConfigNode(APtr, token, ClientValue(APtr, 1))

SpecNs == Init /\ [][NextNs]_vars

-----------------------------------------------------------------------------
(* SpecMissing: Create and CreateConfiguration of a type for which factories *)
(* are registered in one namespace, in the other, in both or in none, with  *)
(* and without a configuration node in the opts: one of the type asked for, *)
(* as a pointer or as a value, one of another type, a nil pointer and the   *)
(* empty string.                                                            *)

ConfigNodes ==
    {ClientValue(APtr, 1), ClientValue(AVal, 1), ClientValue(CfgVal, 1), ZeroOf(APtr),
     ZeroOf(StringType)}

NextMissing ==
    \/ \E token \in {"", "a"} : CallRegister(APtr, token, FnOk)
    \/ \E token \in {"", "a"} : CallRegisterConfiguration(APtr, token, FnOk)
    \/ \E token \in {"", "a"} : CallCreate(APtr, token)
    \/ \E token \in {"", "a"} : CallCreateConfiguration(APtr, token)
    \/ CallCreateWithConfigNode(APtr, "a", ClientValue(APtr, 1))
    \/ \E node \in ConfigNodes : CallCreateConfigurationWithConfigNode(APtr, "a", node)
    \/ CallCreateConfigurationWithConfigNode(APtr, "", ClientValue(AVal, 1))

SpecMissing == Init /\ [][NextMissing]_vars

-----------------------------------------------------------------------------
(* SpecCtx: a client context that carries breadcrumbs and that the client   *)
(* may scope to a configuration, and factories that make several creation   *)
(* calls on the context they are handed, with and without a configuration   *)
(* node of their own.  The client wires the registry, and scopes its        *)
(* context, before its first creation call.                                 *)

\* No creation call has been made yet.
Wiring == last.n = 0

NextCtx ==
    \/ CallAppendBreadcrumb("b")
    \/ Wiring /\ CallScopedConfiguration(ClientValue(CfgVal, 1))
    \/ \E fn \in {FnSiblings, FnNeedsCfgAndPair, FnScopesItsChild} :
          Wiring /\ CallRegister(APtr, "", fn)
    \/ Wiring /\ CallRegister(BPtr, "", FnOk)
    \/ Wiring /\ CallRegisterConfiguration(CfgVal, "", FnOk)
    \/ Wiring /\ CallRegisterPair(BPtr, CfgVal, "a", FnOk, FnOk)
    \/ \E token \in {"", "a"} : CallCreate(APtr, token)
    \/ CallCreateWithConfigNode(APtr, "a", ClientValue(CfgVal, 3))
    \/ CallCreateConfiguration(CfgVal, "a")
    \/ CallCreatePair(BPtr, CfgVal, "a")

SpecCtx == Init /\ [][NextCtx]_vars

-----------------------------------------------------------------------------
(* SpecCycle: factories that create each other: the one of *A creates a *B, *)
(* and the one of *B builds its value, fails, or creates an *A.             *)

NextCycle ==
    \/ CallRegister(APtr, "", FnNeedsB)
    \/ \E fn \in {FnOk, FnFails, FnNeedsA} : CallRegister(BPtr, "", fn)
    \/ \E T \in {APtr, BPtr} : CallCreate(T, "")

SpecCycle == Init /\ [][NextCycle]_vars

-----------------------------------------------------------------------------
(* SpecNode: creations of *A, without a token and under a token, that name  *)
(* a configuration node path, as the factories of the repository's tests    *)
(* do for the caches they create, or that carry a configuration node.       *)

NodePaths == {"", "cache", "session_cache"}

NextNode ==
    \/ \E token \in {"", "a"}, fn \in {FnOk, FnFails} : CallRegister(APtr, token, fn)
    \/ \E token \in {"", "a"}, path \in NodePaths :
          CallCreateWithConfigNodePath(APtr, token, path)
    \/ CallCreateWithConfigNode(APtr, "a", ClientValue(CfgVal, 1))

SpecNode == Init /\ [][NextNode]_vars

-----------------------------------------------------------------------------
(* SpecPair: pairs of a pointer type with a configuration type or with the  *)
(* NoConfig sentinel, whose configuration factory can fail, and CreatePair  *)
(* for the pointer type and for its value type.                             *)

NextPair ==
    \/ \E CT \in {CfgVal, NoConfigVal}, token \in {"", "a"}, fnCT \in {FnOk, FnFails} :
            CallRegisterPair(APtr, CT, token, FnOk, fnCT)
    \/ \E T \in {AVal, APtr}, CT \in {CfgVal, NoConfigVal}, token \in {"", "a"} :
            CallCreatePair(T, CT, token)

SpecPair == Init /\ [][NextPair]_vars

-----------------------------------------------------------------------------
(* SpecConc: after the wiring, goroutines call Create[*A] at the same time. *)
(* Nothing in the registry or in the hot-memory wrapper synchronises them,  *)
(* so the steps of a call interleave with those of the others: the lookup   *)
(* of the creator, the probe of the cache, the factory, the store into the  *)
(* cache, the final type assertion.  A creation call that a factory makes   *)
(* is a call in flight of its own, with the same steps, for which the       *)
(* factory waits.  The factories make their creation calls by Create.       *)
(* The cache is a Go map: a write takes time, and a read or a write that    *)
(* falls into another goroutine's write is a data race, which the runtime   *)
(* either detects, aborting the process, or lets through.                   *)

\* A call of Create[T](ctx, WithToken(token)) in flight, once it has cloned
\* the context and appended the token: the call that made it (0: a goroutine
\* of the client), the breadcrumbs and the scope of its clone, how deep it is
\* nested; in createSingleWithToken[T], where it is, the key it asks the
\* registry for, whether that is the retry under the unqualified key, and
\* the error that made it retry; in the factory, its entry in the invocation
\* log, the creation call it waits for and which of the factory's that is.
Goroutine(T, token, caller, w, depth) ==
    [T |-> T, tok |-> token, pc |-> "lookup", key |-> TypeName(T, token),
     retried |-> FALSE, first |-> NoErr, v |-> NoValue, kind |-> "", err |-> NoErr,
     caller |-> caller, crumbs |-> w.ctxs[2], scope |-> w.scope[2], depth |-> depth,
     inv |-> 0, dep |-> 0, child |-> 0]

\* The clone that Create makes of a context, with the token appended.
Entered(crumbs, scope, token) ==
    LET c == Clone(World(hotInstances, invlog, nalloc, <<crumbs>>, <<scope>>), 1)
    IN AppendBreadcrumb(c.w, c.ctx, token)

\* createSingleWithToken after f.Create gave the error err to goroutine g: an
\* error of the first Create that has not the not-registered code is returned
\* wrapped; one that has it is retried under the unqualified key; an error
\* of the retry is returned wrapped, with the first error nested.
GoFailed(g, err) ==
    IF g.retried
    THEN [g EXCEPT !.pc = "done", !.kind = "err",
                   !.err = WithNestedError(Wrap(err, ErrorCreatingDependencyErrorCode),
                                           g.first)]
    ELSE IF Has(err, DependencyMissingErrorCode)
    THEN [g EXCEPT !.pc = "lookup", !.key = TypeName(g.T, ""), !.retried = TRUE,
                   !.first = err]
    ELSE [g EXCEPT !.pc = "done", !.kind = "err",
                   !.err = Wrap(err, ErrorCreatingDependencyErrorCode)]

\* The factory of call g from its i-th creation call on: the call is made
\* and the factory waits for it; after the last one the factory returns its
\* own error, which the wrapper returns, or the value it builds, which goes
\* on to the store.
GoFactory(gs, g, i) ==
    LET reg == registrations[gs[g].key]
    IN IF i <= Len(reg.fn.deps)
       THEN Append([gs EXCEPT ![g] = [@ EXCEPT !.pc = "waiting", !.dep = i,
                                               !.child = Len(gs) + 1]],
                   Goroutine(reg.fn.deps[i].T, reg.fn.deps[i].tok, g,
                             Entered(gs[g].crumbs, gs[g].scope, reg.fn.deps[i].tok),
                             gs[g].depth + 1))
       ELSE IF reg.fn.fails
       THEN [gs EXCEPT ![g] = GoFailed(@, NewError(FactoryErrorCode))]
       ELSE [gs EXCEPT ![g] = [@ EXCEPT !.pc = "store", !.v = Built(reg.rtype, gs[g].inv)]]

\* The creation calls of a factory are calls of Create without a
\* configuration node.
CreatesByCreate(fn) ==
    \A i \in DOMAIN fn.deps : fn.deps[i].op = "Create" /\ fn.deps[i].node = NoValue

\* Some other goroutine is in the middle of its write of the cache.
Racing(g) == \E h \in DOMAIN gor : h # g /\ gor[h].pc = "storing"

\* The goroutines that the client started.
Started == {g \in DOMAIN gor : gor[g].caller = 0}

\* go Create[T](ctx, WithToken(token))
GoCreate(T, token) ==
    /\ ~crashed
    /\ Cardinality(Started) < MaxGor
    /\ gor' = Append(gor, Goroutine(T, token, 0, Entered(rootCrumbs, rootScope, token), 1))
    /\ UNCHANGED lib
    /\ UNCHANGED <<registrations, configurationRegistrations, hotInstances, invlog,
                   nalloc, nregs, rootCrumbs, rootScope, last, crashed>>

\* diRegistry.Create in createSingleWithToken: the creator of the key, or
\* the not-registered error.
GoLookup(g) ==
    /\ ~crashed
    /\ gor[g].pc = "lookup"
    /\ gor' = [gor EXCEPT ![g] =
          IF @.key \in DOMAIN registrations THEN [@ EXCEPT !.pc = "probe"]
          ELSE GoFailed(@, NewError(DependencyMissingErrorCode))]
    /\ UNCHANGED lib
    /\ UNCHANGED <<registrations, configurationRegistrations, hotInstances, invlog,
                   nalloc, nregs, rootCrumbs, rootScope, last, crashed>>

\* GetHotInstance in the hot-memory wrapper: a hit is returned, a miss goes
\* on to the factory.
GoProbe(g) ==
    /\ ~crashed
    /\ gor[g].pc = "probe"
    /\ \/ /\ Racing(g)
          /\ crashed' = TRUE
          /\ UNCHANGED gor
       \/ LET got == GetHotInstance(hotInstances, Opts(gor[g].tok),
                                    registrations[gor[g].key].typeName)
          IN /\ gor' = [gor EXCEPT ![g] =
                    IF got.err = NoErr THEN [@ EXCEPT !.pc = "assert", !.v = got.v]
                    ELSE [@ EXCEPT !.pc = "invoke"]]
             /\ UNCHANGED crashed
    /\ UNCHANGED lib
    /\ UNCHANGED <<registrations, configurationRegistrations, hotInstances, invlog,
                   nalloc, nregs, rootCrumbs, rootScope, last>>

\* fn(ctx, opts) in the hot-memory wrapper, on the clone of the caller's
\* context with the token appended: the factory begins and runs up to its
\* first creation call, or to its end if it makes none.  Creations nested
\* too deep exhaust the stack, which ends the process.
GoInvoke(g) ==
    /\ ~crashed
    /\ gor[g].pc = "invoke"
    /\ CreatesByCreate(registrations[gor[g].key].fn)
    /\ IF gor[g].depth > MaxDepth
       THEN /\ crashed' = TRUE
            /\ UNCHANGED <<gor, invlog>>
       ELSE /\ invlog' = Append(invlog,
                   Invocation(registrations[gor[g].key].fid,
                              registrations[gor[g].key].typeName,
                              gor[g].crumbs, gor[g].scope, Opts(gor[g].tok), 0))
            /\ gor' = GoFactory([gor EXCEPT ![g].inv = Len(invlog) + 1], g, 1)
            /\ UNCHANGED crashed
    /\ UNCHANGED lib
    /\ UNCHANGED <<registrations, configurationRegistrations, hotInstances, nalloc,
                   nregs, rootCrumbs, rootScope, last>>

\* The creation call that the factory of call g waits for has returned: a
\* value lets the factory go on, an error is returned by the factory and by
\* the wrapper, and createSingleWithToken retries or returns; a panic
\* unwinds the factory and its call.
GoResume(g) ==
    /\ ~crashed
    /\ gor[g].pc = "waiting"
    /\ gor[gor[g].child].pc = "done"
    /\ gor' = IF gor[gor[g].child].kind = "ok" THEN GoFactory(gor, g, gor[g].dep + 1)
              ELSE IF gor[gor[g].child].kind = "err"
              THEN [gor EXCEPT ![g] = GoFailed(@, gor[gor[g].child].err)]
              ELSE [gor EXCEPT ![g] = [@ EXCEPT !.pc = "done",
                                                !.kind = gor[gor[g].child].kind,
                                                !.err = gor[gor[g].child].err]]
    /\ UNCHANGED lib
    /\ UNCHANGED <<registrations, configurationRegistrations, hotInstances, invlog,
                   nalloc, nregs, rootCrumbs, rootScope, last, crashed>>

\* SetHotInstance in the hot-memory wrapper: the write of the map begins.
GoStoreBegin(g) ==
    /\ ~crashed
    /\ gor[g].pc = "store"
    /\ \/ /\ Racing(g)
          /\ crashed' = TRUE
          /\ UNCHANGED gor
       \/ /\ gor' = [gor EXCEPT ![g].pc = "storing"]
          /\ UNCHANGED crashed
    /\ UNCHANGED lib
    /\ UNCHANGED <<registrations, configurationRegistrations, hotInstances, invlog,
                   nalloc, nregs, rootCrumbs, rootScope, last>>

\* SetHotInstance: the write of the map ends, the value is in the cache.
GoStoreEnd(g) ==
    /\ ~crashed
    /\ gor[g].pc = "storing"
    /\ hotInstances' = SetHotInstance(hotInstances, Opts(gor[g].tok),
                                      registrations[gor[g].key].typeName, gor[g].v)
    /\ gor' = [gor EXCEPT ![g].pc = "assert"]
    /\ UNCHANGED lib
    /\ UNCHANGED <<registrations, configurationRegistrations, invlog,
                   nalloc, nregs, rootCrumbs, rootScope, last, crashed>>

\* SafeTypeAssert at the end of createSingleWithToken, and the return.
GoReturn(g) ==
    /\ ~crashed
    /\ gor[g].pc = "assert"
    /\ LET a == SafeTypeAssert(gor[g].T, gor[g].v, nalloc)
       IN /\ nalloc' = a.nalloc
          /\ gor' = [gor EXCEPT ![g] =
                 IF a.panics
                 THEN [@ EXCEPT !.pc = "done", !.kind = "panic", !.v = NoValue,
                                !.err = NewError(ReflectZeroValuePanic)]
                 ELSE IF a.ok THEN [@ EXCEPT !.pc = "done", !.kind = "ok", !.v = a.v]
                 ELSE [@ EXCEPT !.pc = "done", !.kind = "panic", !.v = NoValue,
                                !.err = NewError(DependencyTypeMismatchErrorCode)]]
    /\ UNCHANGED lib
    /\ UNCHANGED <<registrations, configurationRegistrations, hotInstances, invlog,
                   nregs, rootCrumbs, rootScope, last, crashed>>

NextConc ==
    \/ \E T \in {AVal, APtr}, token \in {"", "a"} : CallRegister(T, token, FnOk)
    \/ CallRegister(APtr, "", FnFails)
    \/ CallRegister(APtr, "a", FnNeedsB)
    \/ CallRegister(BPtr, "", FnOk)
    \/ \E token \in {"", "a"} : GoCreate(APtr, token)
    \/ \E g \in DOMAIN gor : GoLookup(g)
    \/ \E g \in DOMAIN gor : GoProbe(g)
    \/ \E g \in DOMAIN gor : GoInvoke(g)
    \/ \E g \in DOMAIN gor : GoResume(g)
    \/ \E g \in DOMAIN gor : GoStoreBegin(g)
    \/ \E g \in DOMAIN gor : GoStoreEnd(g)
    \/ \E g \in DOMAIN gor : GoReturn(g)

SpecConc == Init /\ [][NextConc]_vars

-----------------------------------------------------------------------------
(* Injection tokens (registry_types.go).  A token is the sequence of its    *)
(* characters.                                                              *)

MaxTokenLen == 4
MaxLibCalls == 3

Chars == {"a", "."}

RECURSIVE StringsUpTo(_)
\* The strings of at most n characters.
StringsUpTo(n) ==
    IF n = 0 THEN {<<>>}
    ELSE LET shorter == StringsUpTo(n - 1)
         IN shorter \cup {Append(t, c) : t \in {u \in shorter : Len(u) = n - 1}, c \in Chars}

\* The formats of the messages RegisterInjectionToken fails with.
AlreadyRegisteredMsg == "injection token %s already registered"
EmptyTokenMsg == "injection token cannot be empty"
StartOrEndDotMsg == "injection token %s cannot start or end with a dot"
ConsecutiveDotsMsg == "injection token %s cannot contain consecutive dots"
NoMsg == ""

\* The loop of RegisterInjectionToken from the i-th character on: the
\* message of the first errors.Must that fires, NoMsg if none does.
RECURSIVE DotScan(_, _)
DotScan(tkn, i) ==
    IF i > Len(tkn) THEN NoMsg
    ELSE IF tkn[i] = "." /\ (i = 1 \/ i = Len(tkn)) THEN StartOrEndDotMsg
    ELSE IF tkn[i] = "." /\ tkn[i - 1] = "." THEN ConsecutiveDotsMsg
    ELSE DotScan(tkn, i + 1)

\* RegisterInjectionToken up to its last errors.Must: the message of the
\* first one that fires (each panics), NoMsg if the token passes them all.
TokenFault(tokens, tkn) ==
    IF tkn \in tokens THEN AlreadyRegisteredMsg
    ELSE IF tkn = <<>> THEN EmptyTokenMsg
    ELSE DotScan(tkn, 1)

CanCallLib == out.n < MaxLibCalls

\* RegisterInjectionToken(tkn)
CallRegisterInjectionToken(tkn) ==
    /\ CanCallLib
    /\ LET msg == TokenFault(injectionTokenMap, tkn)
       IN IF msg # NoMsg
          THEN /\ out' = [n |-> out.n + 1, op |-> "RegisterInjectionToken", tkn |-> tkn,
                          kind |-> "panic", msg |-> msg, v |-> <<>>]
               /\ UNCHANGED injectionTokenMap
          ELSE /\ out' = [n |-> out.n + 1, op |-> "RegisterInjectionToken", tkn |-> tkn,
                          kind |-> "ok", msg |-> NoMsg, v |-> tkn]
               /\ injectionTokenMap' = injectionTokenMap \cup {tkn}
    /\ UNCHANGED container

NextTok == \E tkn \in StringsUpTo(MaxTokenLen) : CallRegisterInjectionToken(tkn)

SpecTok == Init /\ [][NextTok]_vars

-----------------------------------------------------------------------------
(* The configuration lookup path (part_001).  A path is the sequence of its *)
(* characters, as a token is.                                               *)

MaxFragmentLen == 3

\* The RegistryOpts fields the path is assembled from.
PathOpts(token, fragment) == [InjectionToken |-> token, ConfigNodePath |-> fragment]

LibOk(v) == [kind |-> "ok", v |-> v]
LibErr(msg) == [kind |-> "err", v |-> <<>>, msg |-> msg]

\* A plausible slip: the token and the fragment are joined without the dot.
AssembleWithoutSeparator(opts) ==
    IF Len(opts.InjectionToken) = 0 /\ Len(opts.ConfigNodePath) = 0
    THEN LibErr("InjectionToken and ConfigNodePath cannot be both empty")
    ELSE LibOk(opts.InjectionToken \o opts.ConfigNodePath)

\* assembleConfigurationLookupPath(ctx, opts)
assembleConfigurationLookupPath(opts) ==
    IF Len(opts.InjectionToken) = 0 /\ Len(opts.ConfigNodePath) = 0
    THEN LibErr("InjectionToken and ConfigNodePath cannot be both empty")
    ELSE LET lp == IF Len(opts.InjectionToken) > 0
                   THEN opts.InjectionToken \o <<".">> \o opts.ConfigNodePath
                   ELSE opts.ConfigNodePath
         IN IF Len(lp) = 0 THEN LibErr("lookup path cannot be empty") ELSE LibOk(lp)

CallAssembleConfigurationLookupPath(token, fragment) ==
    /\ CanCallLib
    /\ out' = [n |-> out.n + 1, op |-> "assembleConfigurationLookupPath",
               token |-> token, fragment |-> fragment,
               r |-> assembleConfigurationLookupPath(PathOpts(token, fragment))]
    /\ UNCHANGED injectionTokenMap
    /\ UNCHANGED container

NextPath ==
    \E token \in StringsUpTo(MaxTokenLen), fragment \in StringsUpTo(MaxFragmentLen) :
        CallAssembleConfigurationLookupPath(token, fragment)

SpecPath == Init /\ [][NextPath]_vars

-----------------------------------------------------------------------------
(* ConfigurationNodeLookup (part_001).  A Go value seen through reflection  *)
(* is a node: a struct with its fields in declaration order (name, json     *)
(* tag, value), a pointer (nil, or with the node it points to as its one    *)
(* field), a string, or the nil interface.  Names, tags and paths are       *)
(* sequences of characters; a name is exported when it starts with an       *)
(* upper-case letter.                                                       *)

MaxPathLen == 3

Field(name, tag, value) == [name |-> name, tag |-> tag, value |-> value]
StructNode(fields) == [kind |-> "struct", val |-> "", fields |-> fields]
StringNode(x) == [kind |-> "string", val |-> x, fields |-> <<>>]
PtrNode(elem) == [kind |-> "ptr", val |-> "", fields |-> <<Field(<<>>, <<>>, elem)>>]
NilPtrNode == [kind |-> "ptr", val |-> "", fields |-> <<>>]
NilInterface == [kind |-> "invalid", val |-> "", fields |-> <<>>]

UpperCase == {"G", "H"}
PathChars == {"G", "H", "h", "."}

RECURSIVE PathsUpTo(_)
\* The paths of at most n characters.
PathsUpTo(n) ==
    IF n = 0 THEN {<<>>}
    ELSE LET shorter == PathsUpTo(n - 1)
         IN shorter \cup {Append(t, c) : t \in {u \in shorter : Len(u) = n - 1},
                                         c \in PathChars}

\* strings.Split(s, sep) for a separator of one character.
RECURSIVE Split(_, _)
Split(s, sep) ==
    LET at == {i \in 1..Len(s) : s[i] = sep}
    IN IF at = {} THEN <<s>>
       ELSE LET i == CHOOSE k \in at : \A l \in at : k <= l
            IN <<SubSeq(s, 1, i - 1)>> \o Split(SubSeq(s, i + 1, Len(s)), sep)

\* The first index in 1..n that satisfies the test (a set of indexes); 0 if none.
FirstOf(indexes) ==
    IF indexes = {} THEN 0 ELSE CHOOSE k \in indexes : \A l \in indexes : k <= l

\* current.FieldByName(part): the index of the field, 0 if !field.IsValid().
FieldByName(current, part) ==
    FirstOf({i \in 1..Len(current.fields) : current.fields[i].name = part})

\* The loop over the fields of the type: the first whose json tag, or whose
\* json tag up to its first comma, is the part; 0 if !foundField.
FieldByJSONTag(current, part) ==
    FirstOf({i \in 1..Len(current.fields) :
                \/ current.fields[i].tag = part
                \/ Split(current.fields[i].tag, ",")[1] = part})

LibPanic(msg) == [kind |-> "panic", v |-> <<>>, msg |-> msg]

\* The loop of ConfigurationNodeLookup from the i-th part on, and the final
\* current.Interface(); ro: current was reached through an unexported field,
\* which makes Interface() panic.
RECURSIVE NodeWalk(_, _, _, _)
NodeWalk(current, ro, parts, i) ==
    IF i > Len(parts)
    THEN IF ro
         THEN LibPanic("reflect.Value.Interface: cannot return value obtained from unexported field or method")
         ELSE LibOk(current)
    ELSE IF current.kind = "ptr" /\ current.fields = <<>>
    THEN LibErr("nil pointer encountered in path")
    ELSE LET deref == IF current.kind = "ptr" THEN current.fields[1].value ELSE current
             byName == FieldByName(deref, parts[i])
             byTag == FieldByJSONTag(deref, parts[i])
             f == IF byName # 0 THEN byName ELSE byTag
         IN IF deref.kind # "struct" THEN LibErr("cannot access field on non-struct type")
            ELSE IF f = 0 THEN LibErr("field not found")
            ELSE NodeWalk(deref.fields[f].value,
                          ro \/ deref.fields[f].name[1] \notin UpperCase, parts, i + 1)

\* ConfigurationNodeLookup(c, path)
ConfigurationNodeLookup(c, path) ==
    IF path = <<>> THEN LibOk(c) ELSE NodeWalk(c, FALSE, Split(path, "."), 1)

\* The configurations looked into: a field with a json alias; an alias that
\* is also the name of another field; a nil pointer field; nested structs,
\* by value and behind pointers; an unexported field; fields without a tag.
CfgAlias == StructNode(<<Field(<<"H">>, <<"h", ",", "o">>, StringNode("H"))>>)
CfgNameAndAlias ==
    StructNode(<<Field(<<"H">>, <<"G">>, StringNode("H")),
                 Field(<<"G">>, <<>>, StringNode("G"))>>)
CfgNilPointer == StructNode(<<Field(<<"H">>, <<"h">>, NilPtrNode)>>)
CfgNested == StructNode(<<Field(<<"H">>, <<"h">>, PtrNode(CfgAlias)),
                          Field(<<"G">>, <<"g">>, CfgNameAndAlias)>>)
CfgUnexported ==
    StructNode(<<Field(<<"h">>, <<>>, StringNode("h")),
                 Field(<<"H">>, <<>>, StringNode("H"))>>)
CfgUntagged == StructNode(<<Field(<<"H">>, <<"h">>, CfgUnexported),
                            Field(<<"G">>, <<>>, StructNode(<<Field(<<"G">>, <<>>, StringNode("G"))>>))>>)
Roots == {CfgAlias, CfgNameAndAlias, CfgNilPointer, CfgNested, PtrNode(CfgNested),
          CfgUnexported, CfgUntagged, StringNode("s"), NilInterface}

CallConfigurationNodeLookup(c, path) ==
    /\ CanCallLib
    /\ out' = [n |-> out.n + 1, op |-> "ConfigurationNodeLookup", c |-> c, path |-> path,
               r |-> ConfigurationNodeLookup(c, path)]
    /\ UNCHANGED injectionTokenMap
    /\ UNCHANGED container

NextLookup ==
    \E c \in Roots, path \in PathsUpTo(MaxPathLen) : CallConfigurationNodeLookup(c, path)

SpecLookup == Init /\ [][NextLookup]_vars

-----------------------------------------------------------------------------
(* ConfigurationLookup (part_001).  The context is its configuration and    *)
(* its breadcrumbs; a Configuration is a Go value whose LookupNode is       *)
(* ConfigurationNodeLookup on itself, as in the repository's tests.  The    *)
(* type asked for is given by its kind and by whether it is a pointer.      *)

NilLookupContext == [nil |-> TRUE, cfg |-> NilInterface, crumbs |-> <<>>]
LookupContext(cfg, crumbs) == [nil |-> FALSE, cfg |-> cfg, crumbs |-> crumbs]

NodeType(kind, ptr) == [kind |-> kind, ptr |-> ptr]

\* The dynamic type of a node; a nil pointer is a pointer to a struct.
TypeOfNode(node) ==
    IF node.kind # "ptr" THEN NodeType(node.kind, FALSE)
    ELSE IF node.fields = <<>> THEN NodeType("struct", TRUE)
    ELSE NodeType(node.fields[1].value.kind, TRUE)

\* SafeTypeAssert[T](abstractNode) on a node: the node itself, the node a
\* pointer points to, or a pointer to a copy of the node; Elem().Interface()
\* of a nil pointer panics.
NodeAsserted(T, node) ==
    IF TypeOfNode(node) = T THEN LibOk(node)
    ELSE IF TypeOfNode(node) = NodeType(T.kind, TRUE)
    THEN IF node.fields = <<>> THEN LibPanic("call of reflect.Value.Interface on zero Value")
         ELSE LibOk(node.fields[1].value)
    ELSE IF T.ptr /\ TypeOfNode(node) = NodeType(T.kind, FALSE) THEN LibOk(PtrNode(node))
    ELSE LibErr("LookupNode() returned an invalid type")

\* ConfigurationLookup[T] once the path is assembled: LookupNode, and the
\* type assertion of the node it found.
LookedUp(ctx, T, lookupPath) ==
    LET found == ConfigurationNodeLookup(ctx.cfg, lookupPath)
    IN IF found.kind = "panic" THEN found
       ELSE IF found.kind = "err" \/ found.v = NilInterface
       THEN LibErr("LookupNode() failed")
       ELSE NodeAsserted(T, found.v)

\* The path ConfigurationLookup[T](ctx, opts) hands to LookupNode; none when
\* it returns before.
LookupPathOf(ctx, opts) ==
    IF ctx.nil \/ ctx.cfg = NilInterface THEN <<>>
    ELSE assembleConfigurationLookupPath(opts).v

\* ConfigurationLookup[T](ctx, opts)
ConfigurationLookup(ctx, opts, T) ==
    IF ctx.nil THEN LibErr("di.Context cannot be nil")
    ELSE IF ctx.cfg = NilInterface THEN LibErr("di.Context.Configuration() cannot be nil")
    ELSE IF assembleConfigurationLookupPath(opts).kind = "err"
    THEN LibErr("assembleConfigurationLookupPath error")
    ELSE LookedUp(ctx, T, assembleConfigurationLookupPath(opts).v)

CallConfigurationLookup(ctx, token, fragment, T) ==
    /\ CanCallLib
    /\ out' = [n |-> out.n + 1, op |-> "ConfigurationLookup", ctx |-> ctx,
               token |-> token, fragment |-> fragment, T |-> T,
               path |-> LookupPathOf(ctx, PathOpts(token, fragment)),
               r |-> ConfigurationLookup(ctx, PathOpts(token, fragment), T)]
    /\ UNCHANGED injectionTokenMap
    /\ UNCHANGED container

\* The contexts factories look into: the configuration of a client, with
\* the breadcrumbs of a creation nested in none or in one creation with a
\* token, the call's own token being the last breadcrumb.
LookupTokens == {<<>>, <<"G">>, <<"H">>}
LookupContexts ==
    {NilLookupContext}
    \cup {LookupContext(cfg, crumbs) : cfg \in {CfgNested, CfgNameAndAlias, NilInterface},
                                       crumbs \in {<<>>, <<<<"G">>>>, <<<<"H">>>>,
                                                   <<<<"G">>, <<"H">>>>, <<<<"H">>, <<"H">>>>}}

NextCfgLookup ==
    \E ctx \in LookupContexts, token \in LookupTokens, fragment \in {<<>>, <<"H">>, <<"G">>},
       T \in {NodeType("struct", FALSE), NodeType("string", TRUE)} :
        CallConfigurationLookup(ctx, token, fragment, T)

SpecCfgLookup == Init /\ [][NextCfgLookup]_vars

-----------------------------------------------------------------------------
(* JSON text and JSON trees (part_001).  A document text is the sequence of *)
(* its lexemes: the punctuation characters, the quote, a blank, a run of    *)
(* letters, a number, the word null, a ${di.<path>} placeholder, which      *)
(* carries its literal text and the dot-separated parts of its path, and    *)
(* the opening ${di. of a placeholder on its own.  A string literal is a    *)
(* quote, any lexemes but a quote, and a quote.                             *)

Lexeme(k, text, path) == [k |-> k, s |-> text, path |-> path]
Punct(c) == Lexeme("punct", c, <<>>)
LBrace == Punct("{")
RBrace == Punct("}")
Colon == Punct(":")
Comma == Punct(",")
Quote == Punct("\"")
Blank == Lexeme("space", " ", <<>>)
Letters(text) == Lexeme("letters", text, <<>>)
Number(text) == Lexeme("number", text, <<>>)
NullWord == Lexeme("word", "null", <<>>)
Placeholder(text, path) == Lexeme("placeholder", text, path)
Opener == Lexeme("opener", "${di.", <<>>)

\* The generic tree gojson.Unmarshal builds: a map from keys to trees, a
\* string, a number (by its text) or nil.
JObject(m) == [t |-> "object", s |-> "", m |-> m]
JString(text) == [t |-> "string", s |-> text, m |-> <<>>]
JNumber(text) == [t |-> "number", s |-> text, m |-> <<>>]
JNull == [t |-> "null", s |-> "", m |-> <<>>]

Parsed(v, i) == [ok |-> TRUE, v |-> v, i |-> i]
SyntaxError == [ok |-> FALSE, v |-> JNull, i |-> 0]

\* The index of the first lexeme from i on that is not a blank.
RECURSIVE SkipBlanks(_, _)
SkipBlanks(text, i) ==
    IF i <= Len(text) /\ text[i].k = "space" THEN SkipBlanks(text, i + 1) ELSE i

\* The characters of the lexemes i..j.
RECURSIVE Characters(_, _, _)
Characters(text, i, j) ==
    IF i > j THEN "" ELSE text[i].s \o Characters(text, i + 1, j)

\* A string literal that starts at i (a quote): its characters, and the
\* index after its closing quote.
ParseString(text, i) ==
    LET closing == {j \in (i + 1)..Len(text) : text[j] = Quote}
    IN IF closing = {} THEN SyntaxError
       ELSE LET j == FirstOf(closing)
            IN Parsed(JString(Characters(text, i + 1, j - 1)), j + 1)

RECURSIVE ParseValue(_, _)
RECURSIVE ParseMembers(_, _, _)
RECURSIVE MemberValue(_, _, _)
RECURSIVE MemberEnd(_, _, _, _)

\* The members of an object from i on (after the brace or a comma), m being
\* the members read so far: a key, a colon, a value, then a comma or the
\* closing brace.  A key read twice keeps its last value.
ParseMembers(text, i, m) ==
    LET k == SkipBlanks(text, i)
    IN IF k > Len(text) \/ text[k] # Quote THEN SyntaxError
       ELSE MemberValue(text, ParseString(text, k), m)

MemberValue(text, key, m) ==
    IF ~key.ok THEN SyntaxError
    ELSE LET c == SkipBlanks(text, key.i)
         IN IF c > Len(text) \/ text[c] # Colon THEN SyntaxError
            ELSE MemberEnd(text, key.v.s, ParseValue(text, c + 1), m)

MemberEnd(text, key, value, m) ==
    IF ~value.ok THEN SyntaxError
    ELSE LET e == SkipBlanks(text, value.i)
             m2 == (key :> value.v) @@ m
         IN IF e > Len(text) THEN SyntaxError
            ELSE IF text[e] = Comma THEN ParseMembers(text, e + 1, m2)
            ELSE IF text[e] = RBrace THEN Parsed(JObject(m2), e + 1)
            ELSE SyntaxError

\* The value that starts at or after i.
ParseValue(text, i) ==
    LET k == SkipBlanks(text, i)
    IN IF k > Len(text) THEN SyntaxError
       ELSE IF text[k] = LBrace
       THEN LET b == SkipBlanks(text, k + 1)
            IN IF b <= Len(text) /\ text[b] = RBrace THEN Parsed(JObject(<<>>), b + 1)
               ELSE ParseMembers(text, k + 1, <<>>)
       ELSE IF text[k] = Quote THEN ParseString(text, k)
       ELSE IF text[k].k = "number" THEN Parsed(JNumber(text[k].s), k + 1)
       ELSE IF text[k] = NullWord THEN Parsed(JNull, k + 1)
       ELSE SyntaxError

\* gojson.Unmarshal(text, &rawData) with rawData a map[string]interface{}:
\* the text is one value and nothing else, and the value is an object, or
\* null, which leaves the map nil.
UnmarshalChecked(r, text) ==
    IF ~r.ok \/ SkipBlanks(text, r.i) <= Len(text) THEN SyntaxError
    ELSE IF r.v.t = "null" THEN Parsed(JObject(<<>>), r.i)
    ELSE IF r.v.t # "object" THEN SyntaxError
    ELSE r

Unmarshal(text) == UnmarshalChecked(ParseValue(text, 1), text)

\* The keys of the documents, in the order gojson.Marshal writes the keys of
\* a map (sorted).
KeyOrder == <<"$shared", "${di", "a", "b", "cache", "host", "svc", "x", "y">>

\* gojson.Marshal(node): no blanks, the keys of a map sorted.
RECURSIVE Marshal(_)
RECURSIVE MarshalMembers(_, _, _)
MarshalMembers(m, i, first) ==
    IF i > Len(KeyOrder) THEN <<>>
    ELSE IF KeyOrder[i] \notin DOMAIN m THEN MarshalMembers(m, i + 1, first)
    ELSE (IF first THEN <<>> ELSE <<Comma>>)
         \o <<Quote, Letters(KeyOrder[i]), Quote, Colon>> \o Marshal(m[KeyOrder[i]])
         \o MarshalMembers(m, i + 1, FALSE)

Marshal(node) ==
    IF node.t = "object" THEN <<LBrace>> \o MarshalMembers(node.m, 1, TRUE) \o <<RBrace>>
    ELSE IF node.t = "string" THEN <<Quote, Letters(node.s), Quote>>
    ELSE IF node.t = "number" THEN <<Number(node.s)>>
    ELSE <<NullWord>>

-----------------------------------------------------------------------------
(* ResolveDIReferences (part_001) *)

\* A plausible slip: the text is made valid by parsing and re-serialising it.
MakeValidByReserialising(jsonStr) ==
    IF ParseValue(jsonStr, 1).ok THEN Marshal(ParseValue(jsonStr, 1).v) ELSE jsonStr

\* The orders in which the elements of a set can be taken.
RECURSIVE Orderings(_)
Orderings(S) ==
    IF S = {} THEN {<<>>}
    ELSE UNION {{<<x>> \o rest : rest \in Orderings(S \ {x})} : x \in S}

\* The pieces lo..hi, one after the other.
RECURSIVE Join(_, _, _)
Join(pieces, lo, hi) ==
    IF lo > hi THEN <<>>
    ELSE IF lo = hi THEN pieces[lo]
    ELSE Join(pieces, lo, (lo + hi) \div 2) \o Join(pieces, (lo + hi) \div 2 + 1, hi)

\* The text in which the lexemes from every index of starts to End of it
\* are replaced by With of it.
Rewritten(text, starts, End(_), With(_)) ==
    Join([k \in 1..Len(text) |->
             IF k \in starts THEN With(k)
             ELSE IF \E s \in starts : s < k /\ k <= End(s) THEN <<>>
             ELSE <<text[k]>>],
         1, Len(text))

\* The index of the closing brace of `\$\{di\.[^}]+\}` matched from i on: a
\* placeholder is one match; an opening ${di. runs to the first closing
\* brace after it, which may be the one of a placeholder, with at least one
\* character in between.  0 if the pattern does not match at i.
ClosedAt(text, i) ==
    IF i > Len(text) THEN 0
    ELSE IF text[i].k = "placeholder" THEN i
    ELSE IF text[i] # Opener THEN 0
    ELSE LET j == FirstOf({c \in (i + 1)..Len(text) :
                              text[c] = RBrace \/ text[c].k = "placeholder"})
         IN IF j = i + 1 /\ text[j] = RBrace THEN 0 ELSE j

\* strings.Split(path, ".") for the path of the match from..to, part by
\* part: parts holds the parts read up to the lexeme k, the last of them
\* still open.
RECURSIVE PathParts(_, _, _, _)
PathParts(text, k, to, parts) ==
    LET n == Len(parts)
        open(more) == [parts EXCEPT ![n] = parts[n] \o more]
    IN IF k > to \/ text[k] = RBrace THEN parts
       ELSE IF text[k] = Opener THEN PathParts(text, k + 1, to, Append(open("${di"), ""))
       ELSE IF text[k].k = "placeholder" THEN open("${di") \o text[k].path
       ELSE PathParts(text, k + 1, to, open(text[k].s))

\* One match of the regular expression: the lexemes of ${di.<path>} and the
\* parts of the path.
Match(lit, path) == [lit |-> lit, path |-> path]

MatchAt(text, i) ==
    IF text[i].k = "placeholder" THEN Match(<<text[i]>>, text[i].path)
    ELSE Match(SubSeq(text, i, ClosedAt(text, i)),
               PathParts(text, i + 1, ClosedAt(text, i), <<"">>))

\* A candidate match: the span s..e of the whole expression and the span
\* from..to of its first group, the ${di.<path>}.
Span(s, from, to, e) == [s |-> s, from |-> from, to |-> to, e |-> e]

\* The matches a scan from the left finds among the candidates, which are
\* in text order, none overlapping the one before it: from the k-th
\* candidate on, the text being free from the index free on.  A quote
\* before the group that an earlier match has taken is not part of the match.
RECURSIVE Scan(_, _, _, _)
Scan(spans, k, free, found) ==
    IF k > Len(spans) THEN found
    ELSE IF spans[k].from < free THEN Scan(spans, k + 1, free, found)
    ELSE Scan(spans, k + 1, spans[k].e + 1,
              Append(found, [spans[k] EXCEPT !.s = IF @ < free THEN spans[k].from ELSE @]))

\* The indexes of the text that satisfy the test, in text order.
Indexes(text, Test(_)) == SelectSeq([k \in 1..Len(text) |-> k], Test)

\* The matches of `["']?(\$\{di\.([^}]+)\})["']?` in the text.
Found(text) ==
    LET starts == Indexes(text, LAMBDA c : ClosedAt(text, c) > 0)
        to(c) == ClosedAt(text, c)
    IN Scan([k \in 1..Len(starts) |->
                LET c == starts[k]
                IN Span(IF c > 1 /\ text[c - 1] = Quote THEN c - 1 ELSE c, c, to(c),
                        IF to(c) < Len(text) /\ text[to(c) + 1] = Quote
                        THEN to(c) + 1 ELSE to(c))],
            1, 1, <<>>)

\* The text in which the lexemes of every span are replaced by With of its
\* first index.
Respanned(text, spans, With(_)) ==
    LET End(s) == spans[CHOOSE i \in 1..Len(spans) : spans[i].s = s].e
    IN Rewritten(text, {spans[i].s : i \in 1..Len(spans)}, End, With)

\* makeJSONValid(jsonStr): a colon, blanks, a ${di.<path>} and a comma, a
\* blank or a closing brace become a colon, a blank, the ${di.<path>} in
\* quotes, and that last lexeme.
makeJSONValid(jsonStr) ==
    LET ph(i) == SkipBlanks(jsonStr, i + 1)
        to(i) == ClosedAt(jsonStr, ph(i))
        colons == Indexes(jsonStr,
                      LAMBDA i : /\ jsonStr[i] = Colon
                                 /\ to(i) > 0
                                 /\ to(i) + 1 <= Len(jsonStr)
                                 /\ \/ jsonStr[to(i) + 1] \in {Comma, RBrace}
                                    \/ jsonStr[to(i) + 1].k = "space")
        spans == Scan([k \in 1..Len(colons) |->
                          Span(colons[k], ph(colons[k]), to(colons[k]), to(colons[k]) + 1)],
                      1, 1, <<>>)
        With(i) == <<Colon, Blank, Quote>> \o SubSeq(jsonStr, ph(i), to(i))
                   \o <<Quote, jsonStr[to(i) + 1]>>
    IN Respanned(jsonStr, spans, With)

\* re.ReplaceAllString(validJSON, `null`): every ${di.<path>}, with the quote
\* before it and the quote after it if there is one, becomes the word null.
Nulled(validJSON) ==
    LET With(s) == <<NullWord>>
    IN Respanned(validJSON, Found(validJSON), With)

\* re.FindAllStringSubmatch(jsonStr, -1): the first group and the path of
\* every match, in text order.
Matches(jsonStr) ==
    LET found == Found(jsonStr)
    IN [k \in 1..Len(found) |-> MatchAt(jsonStr, found[k].from)]

\* A plausible slip: a path that does not resolve gives nil and no error.
RECURSIVE ExtractLenient(_, _, _)
ExtractLenient(current, parts, i) ==
    IF parts[i] \notin DOMAIN current THEN LibOk(JNull)
    ELSE IF i = Len(parts) THEN LibOk(current[parts[i]])
    ELSE IF current[parts[i]].t # "object" THEN LibOk(JNull)
    ELSE ExtractLenient(current[parts[i]].m, parts, i + 1)

\* ExtractNodeFromJSONPath(data, path), in its loop from the i-th part of
\* the path on, current being the map reached.
RECURSIVE ExtractNodeFromJSONPath(_, _, _)
ExtractNodeFromJSONPath(current, parts, i) ==
    IF parts[i] \notin DOMAIN current THEN LibErr("path component not found")
    ELSE IF i = Len(parts) THEN LibOk(current[parts[i]])
    ELSE IF current[parts[i]].t # "object" THEN LibErr("path component is not an object")
    ELSE ExtractNodeFromJSONPath(current[parts[i]].m, parts, i + 1)

\* The loop over the matches from the i-th on: done holds, for every
\* placeholder processed, the placeholder and the text of its node.
RECURSIVE Replacements(_, _, _, _)
Replacements(rawData, matches, i, done) ==
    IF i > Len(matches) THEN LibOk(done)
    ELSE IF \E k \in 1..Len(done) : done[k][1] = matches[i]
    THEN Replacements(rawData, matches, i + 1, done)
    ELSE LET node == ExtractNodeFromJSONPath(rawData, matches[i].path, 1)
         IN IF node.kind = "err" THEN LibErr("failed to resolve DI reference")
            ELSE Replacements(rawData, matches, i + 1,
                              Append(done, <<matches[i], Marshal(node.v)>>))

\* Old occurs in text at i.
OccursAt(text, old, i) ==
    /\ i + Len(old) - 1 <= Len(text)
    /\ \A k \in 1..Len(old) : text[i + k - 1] = old[k]

\* The occurrences of old a scan from the left finds, none overlapping the
\* one before it: the indexes from the i-th candidate on, the text being
\* free from the index free on.
RECURSIVE Leftmost(_, _, _, _, _)
Leftmost(candidates, len, i, free, found) ==
    IF i > Len(candidates) THEN found
    ELSE IF candidates[i] < free THEN Leftmost(candidates, len, i + 1, free, found)
    ELSE Leftmost(candidates, len, i + 1, candidates[i] + len,
                  found \cup {candidates[i]})

Occurrences(text, old) ==
    Leftmost(SelectSeq([k \in 1..Len(text) |-> k], LAMBDA k : OccursAt(text, old, k)),
             Len(old), 1, 1, {})

\* The text with new in the place of old at the indexes of starts.
ReplacedAt(text, old, new, starts) ==
    LET End(s) == s + Len(old) - 1
        With(s) == new
    IN Rewritten(text, starts, End, With)

\* A plausible slip: only the bare spelling is replaced.
ReplaceAllButQuoted(text, old, new) ==
    IF old[1] # Quote THEN ReplacedAt(text, old, new, Occurrences(text, old)) ELSE text

\* strings.ReplaceAll(text, old, new)
ReplaceAll(text, old, new) == ReplacedAt(text, old, new, Occurrences(text, old))

\* The loop over the replacements, from the i-th of the order on: the quoted
\* spelling, then the bare one.  The order of the loop is the order of the
\* range over a Go map, which is any order.
RECURSIVE Substituted(_, _, _, _)
Substituted(result, replacements, order, i) ==
    IF i > Len(order) THEN result
    ELSE LET placeholder == replacements[order[i]][1].lit
             replacement == replacements[order[i]][2]
             quoted == ReplaceAll(result, <<Quote>> \o placeholder \o <<Quote>>, replacement)
         IN Substituted(ReplaceAll(quoted, placeholder, replacement),
                        replacements, order, i + 1)

\* ResolveDIReferences after the skeleton was parsed and the nodes found.
SubstitutedOrError(validJSON, rawData, replacements, order) ==
    IF ~rawData.ok THEN LibErr("failed to parse JSON for DI resolution")
    ELSE IF replacements.kind = "err" THEN replacements
    ELSE LibOk(Substituted(validJSON, replacements.v, order, 1))

\* The replacements map of ResolveDIReferences(jsonStr), as the sequence of
\* its entries in the order they were put in; an error if the skeleton does
\* not parse or a path does not resolve.
ReplacementsOf(jsonStr) ==
    LET rawData == Unmarshal(Nulled(makeJSONValid(jsonStr)))
    IN IF rawData.ok THEN Replacements(rawData.v.m, Matches(jsonStr), 1, <<>>)
       ELSE LibErr("")

\* The orders the range over the replacements map can take.
RangeOrders(jsonStr) ==
    IF ReplacementsOf(jsonStr).kind = "err" THEN {<<>>}
    ELSE Orderings(1..Len(ReplacementsOf(jsonStr).v))

\* ResolveDIReferences(jsonStr), the range over the replacements map taking
\* the order given.
ResolveDIReferences(jsonStr, order) ==
    LET validJSON == makeJSONValid(jsonStr)
        rawData == Unmarshal(Nulled(validJSON))
    IN SubstitutedOrError(validJSON, rawData, ReplacementsOf(jsonStr), order)

\* The placeholders of the documents: to the shared section and into it, to
\* a top-level value, to a key that does not exist, and through a value
\* that is not a mapping.
Placeholders ==
    {Placeholder("${di.$shared.cache}", <<"$shared", "cache">>),
     Placeholder("${di.$shared.cache.host}", <<"$shared", "cache", "host">>),
     Placeholder("${di.b}", <<"b">>),
     Placeholder("${di.a}", <<"a">>),
     Placeholder("${di.b.host}", <<"b", "host">>)}

\* The spellings of a placeholder where a value stands: in quotes, bare,
\* inside a longer string, and at the end of a longer string.
QuotedSpelling(ph) == <<Quote, ph, Quote>>
BareSpelling(ph) == <<ph>>
Spellings(ph) ==
    {QuotedSpelling(ph), BareSpelling(ph),
     <<Quote, Letters("x"), Blank, ph, Blank, Letters("y"), Quote>>,
     <<Quote, Letters("x"), Blank, ph, Quote>>}

PlainNumber == <<Number("1")>>

\* The values of the shared section: an object, a string, and a placeholder
\* (a reference to a reference).
SharedValues ==
    {<<LBrace, Quote, Letters("host"), Quote, Colon, Blank, Quote, Letters("h"), Quote, RBrace>>,
     <<Quote, Letters("h"), Quote>>,
     QuotedSpelling(Placeholder("${di.b}", <<"b">>))}

Member(key) == <<Quote, Letters(key), Quote, Colon, Blank>>

\* {"$shared": {"cache": shared}, "svc": {"cache": first}, "b": second}
Document(shared, first, second) ==
    <<LBrace>> \o Member("$shared") \o <<LBrace>> \o Member("cache") \o shared
    \o <<RBrace, Comma, Blank>> \o Member("svc") \o <<LBrace>> \o Member("cache")
    \o first \o <<RBrace, Comma, Blank>> \o Member("b") \o second \o <<RBrace>>

\* A ${di. in front of a placeholder: the expression matches from the ${di.
\* to the closing brace of the placeholder, and its path starts with "${di".
\* The spellings: inside a longer string, and as all of a string.
NestedSpellings(ph) ==
    {<<Quote, Letters("p"), Blank, Opener, ph, RBrace, Blank, Letters("q"), Quote>>,
     <<Quote, Opener, ph, Quote>>}

\* {"a": 1, "${di": {"a": 2}, "x": x, "y": y}
NestedDocument(x, y) ==
    <<LBrace>> \o Member("a") \o <<Number("1"), Comma, Blank>>
    \o Member("${di") \o <<LBrace>> \o Member("a") \o <<Number("2"), RBrace, Comma, Blank>>
    \o Member("x") \o x \o <<Comma, Blank>> \o Member("y") \o y \o <<RBrace>>

NestedDocuments ==
    {NestedDocument(x, y) :
        x \in {PlainNumber, QuotedSpelling(Placeholder("${di.a}", <<"a">>))},
        y \in {PlainNumber} \cup NestedSpellings(Placeholder("${di.a}", <<"a">>))}

Documents ==
    NestedDocuments \cup
    {Document(shared, first, second) :
        shared \in SharedValues,
        first \in {PlainNumber} \cup UNION {Spellings(ph) : ph \in Placeholders},
        second \in {PlainNumber}
                   \cup {QuotedSpelling(ph) : ph \in Placeholders}
                   \cup {BareSpelling(ph) : ph \in Placeholders}}
    \cup {<<Quote, Letters("h"), Quote>>}

\* The caller holds a text it has not resolved yet.
Holding(jsonStr) == [n |-> 0, op |-> "document", doc |-> jsonStr]

\* The state after construction, with the text the caller is about to
\* resolve.
InitResolve ==
    /\ registrations = <<>>
    /\ configurationRegistrations = <<>>
    /\ hotInstances = <<>>
    /\ invlog = <<>>
    /\ nalloc = 0
    /\ nregs = 0
    /\ rootCrumbs = <<>>
    /\ rootScope = NoScope
    /\ last = NoCall
    /\ gor = <<>>
    /\ crashed = FALSE
    /\ injectionTokenMap = {}
    /\ out \in {Holding(jsonStr) : jsonStr \in Documents}

\* ResolveDIReferences(jsonStr); again: jsonStr is the text the last call
\* returned.
Resolve(jsonStr, again) ==
    /\ CanCallLib
    /\ \E order \in RangeOrders(jsonStr) :
           out' = [n |-> out.n + 1, op |-> "ResolveDIReferences", doc |-> jsonStr,
                   again |-> again, r |-> ResolveDIReferences(jsonStr, order)]
    /\ UNCHANGED injectionTokenMap
    /\ UNCHANGED container

CallResolveDIReferences ==
    /\ out.op = "document"
    /\ Resolve(out.doc, FALSE)

CallResolveDIReferencesAgain ==
    /\ out.op = "ResolveDIReferences" /\ out.r.kind = "ok"
    /\ Resolve(out.r.v, TRUE)

NextResolve ==
    \/ CallResolveDIReferences
    \/ CallResolveDIReferencesAgain

SpecResolve == InitResolve /\ [][NextResolve]_vars

-----------------------------------------------------------------------------
(* NewContext (part_001) and Decode (registry_map_struct.go) *)

\* A ConfigRawData: a map from keys to values, or the nil map.
RawData(m) == [nil |-> FALSE, m |-> m]
NilRawData == [nil |-> TRUE, m |-> <<>>]

\* A Configuration: a value of a struct type (fields with json tags), of a
\* map type or of another kind, or the nil interface.
CfgField(name, tag, value) == [name |-> name, tag |-> tag, value |-> value]
ConfigurationOf(kind, fields) == [nil |-> FALSE, kind |-> kind, fields |-> fields]
NilConfiguration == [nil |-> TRUE, kind |-> "", fields |-> <<>>]

\* The inner contexts: nil, context.Background() and one the caller made.
Inner(name) == [nil |-> FALSE, name |-> name]
NilInner == [nil |-> TRUE, name |-> ""]
Background == Inner("background")
StdCtx == Inner("std")

\* A *context, or the nil pointer.
ContextOf(ctx, rawCfg, cfg) ==
    [nil |-> FALSE, ctx |-> ctx, rawCfg |-> rawCfg, cfg |-> cfg,
     injectionTokenBreadcrumb |-> <<>>]
NilContext ==
    [nil |-> TRUE, ctx |-> NilInner, rawCfg |-> NilRawData, cfg |-> NilConfiguration,
     injectionTokenBreadcrumb |-> <<>>]

\* An argument of NewContext, by the case of the type switch it takes.
Arg(kind, v) == [kind |-> kind, v |-> v]

\* The key mapstructure gives a struct field: its json tag, or its name.
DecodedKey(field) == IF field.tag # "" THEN field.tag ELSE field.name

\* Decode[ConfigRawData](from): the map of a struct by the keys of its
\* fields, a copy of a map, and an error for any other kind.
Decode(from) ==
    IF from.kind = "struct"
    THEN LibOk(RawData([k \in {DecodedKey(from.fields[i]) : i \in DOMAIN from.fields} |->
             LET field == CHOOSE i \in DOMAIN from.fields :
                     /\ DecodedKey(from.fields[i]) = k
                     /\ \A j \in DOMAIN from.fields :
                            DecodedKey(from.fields[j]) = k => j <= i
             IN from.fields[field].value]))
    ELSE IF from.kind = "map"
    THEN LibOk(RawData([k \in {from.fields[i].name : i \in DOMAIN from.fields} |->
             LET entry == CHOOSE i \in DOMAIN from.fields : from.fields[i].name = k
             IN from.fields[entry].value]))
    ELSE LibErr("failed to decode")

\* The variables of NewContext.
Locals(ctx, parentDiCtx, rawData, cfg) ==
    [ctx |-> ctx, parentDiCtx |-> parentDiCtx, rawData |-> rawData, cfg |-> cfg]

\* The loop over the arguments, from the i-th on.
RECURSIVE Classified(_, _, _)
Classified(args, i, l) ==
    IF i > Len(args) THEN l
    ELSE Classified(args, i + 1,
             IF args[i].kind = "Context" THEN [l EXCEPT !.parentDiCtx = args[i].v]
             ELSE IF args[i].kind = "goctx.Context" THEN [l EXCEPT !.ctx = args[i].v]
             ELSE IF args[i].kind = "ConfigRawData" THEN [l EXCEPT !.rawData = args[i].v]
             ELSE IF args[i].kind = "Configuration" THEN [l EXCEPT !.cfg = args[i].v]
             ELSE l)

\* if parentDiCtx != nil { ... }
Inherited(l) ==
    IF l.parentDiCtx.nil THEN l
    ELSE Locals(IF l.ctx.nil THEN l.parentDiCtx.ctx ELSE l.ctx,
                l.parentDiCtx,
                IF l.rawData.nil THEN l.parentDiCtx.rawCfg ELSE l.rawData,
                IF l.cfg.nil THEN l.parentDiCtx.cfg ELSE l.cfg)

\* The rest of NewContext: the default inner context, the raw tree decoded
\* from the Configuration (errors.Must panics on an error), the empty map.
Finished(l, decoded) ==
    LET ctx == IF l.ctx.nil THEN Background ELSE l.ctx
        rawData == IF ~l.cfg.nil THEN decoded.v ELSE l.rawData
    IN IF ~l.cfg.nil /\ decoded.kind = "err" THEN LibPanic("errors.Must")
       ELSE LibOk(ContextOf(ctx,
                            IF rawData.nil THEN RawData(<<>>) ELSE rawData,
                            l.cfg))

NewContext(args) ==
    LET l == Inherited(Classified(args, 1,
                 Locals(NilInner, NilContext, NilRawData, NilConfiguration)))
    IN Finished(l, IF l.cfg.nil THEN LibErr("") ELSE Decode(l.cfg))

\* The arguments of the calls: raw trees, Configurations of a struct type,
\* of a map type and of an integer type, and a context of the caller.
RawParent == RawData(("parent" :> "true") @@ ("shared" :> "parent"))
RawChild == RawData(("child" :> "true") @@ ("shared" :> "child"))
CfgTyped == ConfigurationOf("struct", <<CfgField("Name", "name", "typed"),
                                        CfgField("Shared", "", "typed")>>)
CfgSimple == ConfigurationOf("map", <<CfgField("Name", "", "simple")>>)
CfgNumber == ConfigurationOf("int", <<>>)

Given ==
    {Arg("goctx.Context", StdCtx)}
    \cup {Arg("ConfigRawData", r) : r \in {RawParent, RawChild, RawData(<<>>)}}
    \cup {Arg("Configuration", c) : c \in {CfgTyped, CfgSimple, CfgNumber}}

\* The contexts the caller can pass as the parent: the one the last call
\* built.
Parents ==
    IF out.op = "NewContext" /\ out.r.kind = "ok" THEN {Arg("Context", out.r.v)} ELSE {}

\* The argument lists: at most one argument of a kind, in any order.
ArgLists(parents) ==
    UNION {Orderings(S) : S \in {A \in SUBSET (Given \cup parents) :
                                    \A x, y \in A : x.kind = y.kind => x = y}}

CallNewContext(args) ==
    /\ CanCallLib
    /\ out' = [n |-> out.n + 1, op |-> "NewContext", args |-> args, r |-> NewContext(args)]
    /\ UNCHANGED injectionTokenMap
    /\ UNCHANGED container

NextNew == \E args \in ArgLists(Parents) : CallNewContext(args)

SpecNew == Init /\ [][NextNew]_vars

-----------------------------------------------------------------------------
(* What the claims are stated with *)

\* The step is a top-level call that returned.
CallStep == last'.n = last.n + 1

\* The step is a Register* call.
RegisterStep == nregs' = nregs + 1

\* The type key and the cache key the specification gives a type name and a
\* token: token + ":" + name, and the name alone for the empty token.
KeyOf(name, token) == IF token = "" THEN name ELSE token \o ":" \o name

\* No factory invocation.
NoInvocation == Invocation(NoFid, "", <<>>, NoScope, Opts(""), 0)

\* The factory invocation of a log that built a value; none for a value
\* that the client built.
Builder(log, v) == IF v.content \in DOMAIN log THEN log[v.content] ELSE NoInvocation

\* The factory invocation that built a value.
BuiltBy(v) == Builder(invlog, v)

\* A factory was registered for the type name and the token of the last
\* call, in the namespace of its entry point, when it was made.
LastBound == last.reg # NoFid

\* The cache key under which the wrapper of an invocation stores its value.
InvocationKey(i) == HotKey(Opts(invlog[i].tok), invlog[i].typeName)

\* The factory invocations made during the last call.
LastInvocations == {i \in DOMAIN invlog : i >= last.from}

-----------------------------------------------------------------------------
(* C1 (SpecConc) *)

\* The factory of the i-th invocation builds a value: it makes no creation
\* call and does not fail.  (No factory is registered once the goroutines
\* have started, so the registry still holds it.)
BuildsAValue(i) ==
    LET fn == registrations[invlog[i].fid.key].fn
    IN fn.deps = <<>> /\ ~fn.fails

\* C1: the factory of a hot-instance cache key is invoked at most once,
\* under every interleaving of concurrent first-time creations: no two
\* invocations of factories that build a value are for the same cache key.
C1_FactoryInvokedAtMostOncePerKey ==
    \A i, j \in DOMAIN invlog :
        (BuildsAValue(i) /\ BuildsAValue(j) /\ InvocationKey(i) = InvocationKey(j))
            => i = j

-----------------------------------------------------------------------------
(* C2 (Spec) *)

\* C2: with no registration in between, a successful Create that follows a
\* successful Create of the same type with the same token returns the
\* identical instance and invokes no factory.
C2_SameInstanceForSameTypeAndToken ==
    [][(/\ CallStep
        /\ last.kind = "ok" /\ last'.kind = "ok"
        /\ last.regs = nregs
        /\ last'.op = last.op /\ last'.T = last.T /\ last'.tok = last.tok)
       => (last'.v = last.v /\ invlog' = invlog)]_vars

-----------------------------------------------------------------------------
(* C3 (Spec) *)

\* Factories are registered for the type name of T, all without a token.
OnlyUnqualified(T) ==
    /\ \E key \in DOMAIN registrations : registrations[key].fid.name = T.name
    /\ \A key \in DOMAIN registrations : registrations[key].fid.tok = ""

\* C3: while only unqualified bindings of T are registered, every Create[T],
\* with no token or with any token, succeeds; the factory of T has then been
\* invoked once in the registry, and the call returns the data the previous
\* successful Create of that type returned.
C3_FallbackReturnsTheUnqualifiedSingleton ==
    [][(CallStep /\ last'.op = "Create" /\ OnlyUnqualified(last'.T))
       => (/\ last'.kind = "ok"
           /\ Cardinality({i \in DOMAIN invlog' :
                              invlog'[i].fid.name = last'.T.name}) = 1
           /\ (last.kind = "ok" /\ last.T = last'.T)
                  => last'.v.content = last.v.content)]_vars

-----------------------------------------------------------------------------
(* C4 (SpecErr) *)

\* C4: a Create with a non-empty token for which a factory is registered
\* under that token never invokes the unqualified factory of the type,
\* whatever the registered factory does: every factory of the type invoked
\* during the call is one registered under the token.
C4_NoFallbackWhenTokenIsBound ==
    (last.op = "Create" /\ last.tok # "" /\ LastBound)
        => \A i \in LastInvocations :
               invlog[i].fid.name = last.T.name => invlog[i].fid.tok = last.tok

-----------------------------------------------------------------------------
(* C5 (Spec) *)

\* C5: a factory registered under a token is invoked only by creations with
\* that token; the cache holds a different instance under every key; and a
\* Create with a token under which a factory is registered succeeds with a
\* value built by a factory registered under that very token for that type.
C5_TokenIsolation ==
    /\ \A i \in DOMAIN invlog :
           invlog[i].fid.tok # "" => invlog[i].tok = invlog[i].fid.tok
    /\ \A k1, k2 \in DOMAIN hotInstances :
           k1 # k2 => hotInstances[k1].id # hotInstances[k2].id
    /\ (last.op = "Create" /\ last.tok # "" /\ LastBound)
           => /\ last.kind = "ok"
              /\ BuiltBy(last.v).fid.tok = last.tok
              /\ BuiltBy(last.v).fid.name = last.T.name
              /\ BuiltBy(last.v).tok = last.tok

\* Factories are registered under both tokens, both have been created with,
\* and the last creation was one of them.
C5_Witness ==
    /\ {"a:a:di.A", "b:b:di.A"} \subseteq DOMAIN hotInstances
    /\ hotInstances["a:a:di.A"].id # hotInstances["b:b:di.A"].id
    /\ last.op = "Create" /\ last.tok = "b" /\ LastBound /\ last.kind = "ok"
    /\ last.v.content = hotInstances["b:b:di.A"].content

-----------------------------------------------------------------------------
(* C6 (SpecErr) *)

\* A creator that returns a string ran during the last call.
ReturnedAString == \E i \in LastInvocations : invlog[i].fid.ns = "raw"

\* C6: a Create whose creator returned a value that is neither of the
\* requested type nor the pointer or the value of it ends in the
\* type-mismatch panic: it returns no value and no ordinary error.
C6_TypeMismatchPanics ==
    (last.op = "Create" /\ ReturnedAString)
        => /\ last.kind = "panic"
           /\ Has(last.err, DependencyTypeMismatchErrorCode)
           /\ last.v = NoValue

\* A Create with a token found a creator that returns a string, and
\* panicked.
C6_Witness ==
    /\ last.op = "Create" /\ last.tok = "a" /\ last.T = APtr
    /\ ReturnedAString
    /\ last.kind = "panic"

-----------------------------------------------------------------------------
(* C7 (Spec) *)

\* C7: T and *T have the same type key, token + ":" + name with a token and
\* the name without; a Create of T or *T for which a factory of either is
\* registered under that token succeeds, and returns a value of the
\* requested type whose content is that of the factory's value, the one the
\* cache holds.
C7_PointerAndValueShareTheTypeKey ==
    /\ \A token \in Tokens :
           /\ TypeName(AVal, token) = KeyOf("di.A", token)
           /\ TypeName(APtr, token) = KeyOf("di.A", token)
    /\ (last.op = "Create" /\ LastBound)
           => /\ last.kind = "ok"
              /\ last.v.type = last.T.name
              /\ last.v.ptr = last.T.ptr
              /\ KeyOf(KeyOf(last.T.name, last.tok), last.tok) \in DOMAIN hotInstances
              /\ last.v.content =
                     hotInstances[KeyOf(KeyOf(last.T.name, last.tok), last.tok)].content

\* A *A was created, under a token, from a factory registered for A, whose
\* value the cache holds; the cache also holds a *A, built by a factory
\* registered for *A under another token.
C7_Witness ==
    /\ last.op = "Create" /\ LastBound /\ last.kind = "ok"
    /\ last.T = APtr /\ last.tok = "a" /\ last.v.ptr
    /\ "a:a:di.A" \in DOMAIN hotInstances /\ ~hotInstances["a:a:di.A"].ptr
    /\ last.v.content = hotInstances["a:a:di.A"].content
    /\ "b:b:di.A" \in DOMAIN hotInstances /\ hotInstances["b:b:di.A"].ptr

-----------------------------------------------------------------------------
(* C8 (SpecRe) *)

\* The Register* call of the step stored its factory: what changed in the
\* two maps is one entry, which now holds a factory registered after the one
\* it held.
StoredItsFactory ==
    LET changed(old, new) ==
            {key \in DOMAIN new : key \notin DOMAIN old \/ new[key] # old[key]}
        newer(old, new, key) ==
            new[key].fid.ver = IF key \in DOMAIN old THEN old[key].fid.ver + 1 ELSE 1
        ri == changed(registrations, registrations')
        rc == changed(configurationRegistrations, configurationRegistrations')
    IN /\ DOMAIN registrations \subseteq DOMAIN registrations'
       /\ DOMAIN configurationRegistrations \subseteq DOMAIN configurationRegistrations'
       /\ Cardinality(ri) + Cardinality(rc) = 1
       /\ \A key \in ri : newer(registrations, registrations', key)
       /\ \A key \in rc :
              newer(configurationRegistrations, configurationRegistrations', key)

\* C8 as stated: every Register and RegisterConfiguration stores its factory
\* in place of the one registered before, and every successful Create or
\* CreateConfiguration for a registered key yields a value built by the
\* factory registered last for that key.
C8_LastRegisteredFactoryBuildsTheValue ==
    [][/\ RegisterStep => StoredItsFactory
       /\ (CallStep /\ last'.reg # NoFid /\ last'.kind = "ok")
              => Builder(invlog', last'.v).fid = last'.reg]_vars

\* C8, amended: every Register and RegisterConfiguration stores its factory
\* in place of the one registered before.  A Create or CreateConfiguration
\* for a registered key succeeds; if the cache holds no instance under the
\* cache key of the call, or if the factory registered last is a creator
\* that the client handed to the registry's own method, it invokes the
\* factory registered last for the key and returns the value that invocation
\* built; else it invokes no factory and returns the cached instance,
\* whichever factory built it.
C8_LastRegisteredFactoryUnlessCached ==
    [][/\ RegisterStep => StoredItsFactory
       /\ (CallStep /\ last'.reg # NoFid)
              => LET hk == KeyOf(KeyOf(last'.T.name, last'.tok), last'.tok)
                 IN /\ last'.kind = "ok"
                    /\ IF hk \in DOMAIN hotInstances /\ last'.reg.ns \notin {"raw", "rawcfg"}
                       THEN /\ invlog' = invlog
                            /\ last'.v.content = hotInstances[hk].content
                       ELSE /\ Len(invlog') = Len(invlog) + 1
                            /\ invlog'[Len(invlog')].fid = last'.reg
                            /\ last'.v.content = Len(invlog')]_vars

\* A factory was registered again for a key under which an instance was
\* cached, and a Create was made after that: it returned the instance the
\* earlier factory had built.
C8_Witness ==
    /\ last.op = "Create" /\ last.tok = "a" /\ LastBound /\ last.kind = "ok"
    /\ BuiltBy(last.v).fid.ver < last.reg.ver
    /\ BuiltBy(last.v).fid.tok = "a"

-----------------------------------------------------------------------------
(* C9 (SpecNs) *)

\* The opts of call c carry a configuration node that CreateConfiguration
\* returns in place of a lookup: c is a CreateConfiguration, the node is
\* neither nil nor empty, and it is of the type asked for, as a pointer or as
\* a value.
NodeStandsIn(c) ==
    /\ c.op = "CreateConfiguration"
    /\ ~IsNilOrEmpty(c.node)
    /\ c.node.type = c.T.name

\* C9: a successful Create for a key under which an instance factory is
\* registered returns a value built by an instance factory, and a successful
\* CreateConfiguration for a key under which a configuration factory is
\* registered returns a value built by a configuration factory, whatever
\* else is registered and whatever was created before.  A CreateConfiguration
\* whose opts carry the configuration to return asks no namespace and is set
\* aside.
C9_SeparateNamespaces ==
    (/\ last.op \in {"Create", "CreateConfiguration"} /\ LastBound /\ last.kind = "ok"
     /\ ~NodeStandsIn(last))
        => BuiltBy(last.v).fid.ns = IF last.op = "Create" THEN "inst" ELSE "cfg"

-----------------------------------------------------------------------------
(* C10 (SpecCtx) *)

\* C10: every creation call, of the client or of a factory, leaves the
\* breadcrumbs of the context it was given as they were; and every call a
\* factory makes starts from the breadcrumbs that factory was handed,
\* whatever calls the factory made before it.
C10_CallerBreadcrumbsUnchanged ==
    \A i \in DOMAIN last.calls :
        /\ last.calls[i].before = last.calls[i].after
        /\ last.calls[i].by > 0
               => last.calls[i].before = invlog[last.calls[i].by].crumbs

\* A factory that was handed non-empty breadcrumbs made two creation calls
\* with two tokens, one after the other, and both built their value.
C10_Witness ==
    \E i, j \in DOMAIN last.calls :
        /\ i < j
        /\ last.calls[i].by > 0 /\ last.calls[i].by = last.calls[j].by
        /\ last.calls[i].tok = "a" /\ last.calls[j].tok = "b"
        /\ last.calls[i].kind = "ok" /\ last.calls[j].kind = "ok"
        /\ Len(last.calls[i].before) = 2
        /\ \E k \in LastInvocations : invlog[k].crumbs = last.calls[j].before \o <<"b">>

-----------------------------------------------------------------------------
(* C11 (SpecNs) *)

\* Nothing is registered for the call of the step under its token, in the
\* namespace of its entry point, and a factory is registered there for the
\* same type (for CreatePair, the same pair) without a token; the opts of the
\* call carry no configuration node that is returned in place of a lookup.
OnlyTheUnqualifiedIsBound ==
    /\ CallStep
    /\ last'.tok # ""
    /\ last'.reg = NoFid
    /\ Bound(last'.op, last'.T, last'.CT, "") # NoFid
    /\ ~NodeStandsIn(last')

\* C11: a Create, CreateConfiguration or CreatePair with a non-empty token
\* under which nothing is registered, while the unqualified binding is
\* registered, succeeds and returns a value built by a factory registered
\* without a token.
C11_EveryEntryPointFallsBack ==
    [][OnlyTheUnqualifiedIsBound
           => (/\ last'.kind = "ok"
               /\ Builder(invlog', last'.v).fid # NoFid
               /\ Builder(invlog', last'.v).fid.tok = "")]_vars

-----------------------------------------------------------------------------
(* C12 (SpecMissing) *)

\* Neither the key with the token of the call of the step nor the
\* unqualified key is registered in the namespace of its entry point.
NothingIsBound ==
    /\ CallStep
    /\ last'.op \in {"Create", "CreateConfiguration"}
    /\ last'.reg = NoFid
    /\ Bound(last'.op, last'.T, last'.CT, "") = NoFid

\* C12 as stated: a Create or CreateConfiguration for which neither the key
\* with the token nor the unqualified key is registered returns an error and
\* no value; the error is the wrapping creation error and carries the
\* not-registered code; no factory is invoked and the cache is unchanged.
C12_NotRegisteredIsReturned ==
    [][NothingIsBound
           => (/\ last'.kind = "err"
               /\ last'.v = NoValue
               /\ last'.err[1] = ErrorCreatingDependencyErrorCode
               /\ Has(last'.err, DependencyMissingErrorCode)
               /\ invlog' = invlog
               /\ hotInstances' = hotInstances)]_vars

\* The opts of the call of the step carry a configuration node that
\* CreateConfiguration returns: the call is a CreateConfiguration, the node
\* is neither nil nor empty, and it is of the type asked for, as a pointer or
\* as a value.
ConfigNodeStandsIn == NodeStandsIn(last')

\* C12, amended: a Create or CreateConfiguration for which neither the key
\* with the token nor the unqualified key is registered invokes no factory
\* and leaves the cache unchanged.  It returns an error and no value, the
\* wrapping creation error that carries the not-registered code, unless it
\* is a CreateConfiguration whose opts carry a configuration node of the
\* type asked for that is neither nil nor empty: that call returns the node,
\* in the pointer or value form asked for, and a nil error.
C12_NotRegisteredUnlessConfigNode ==
    [][NothingIsBound
           => (/\ invlog' = invlog
               /\ hotInstances' = hotInstances
               /\ IF ConfigNodeStandsIn
                  THEN /\ last'.kind = "ok"
                       /\ last'.v.type = last'.T.name /\ last'.v.ptr = last'.T.ptr
                       /\ last'.v.content = last'.node.content
                  ELSE /\ last'.kind = "err"
                       /\ last'.v = NoValue
                       /\ last'.err[1] = ErrorCreatingDependencyErrorCode
                       /\ Has(last'.err, DependencyMissingErrorCode))]_vars

\* A CreateConfiguration with a token, whose opts carried a configuration
\* node of another type, failed as not registered while factories of the
\* other namespace were registered for the type, with and without the token,
\* and the cache held an instance.
C12_Witness ==
    /\ last.op = "CreateConfiguration" /\ last.tok = "a" /\ last.kind = "err"
    /\ last.node = ClientValue(CfgVal, 1)
    /\ Has(last.err, DependencyMissingErrorCode)
    /\ configurationRegistrations = <<>>
    /\ {"di.A", "a:di.A"} \subseteq DOMAIN registrations
    /\ hotInstances # <<>>

-----------------------------------------------------------------------------
(* C13 (SpecTok) *)

\* The step is a call of a library function that returned or panicked.
LibStep == out'.n = out.n + 1

\* What the specification rejects a token for.
Defects(tkn, tokens) ==
    {d \in {"empty", "leading dot", "trailing dot", "consecutive dots", "registered"} :
        \/ d = "empty" /\ tkn = <<>>
        \/ d = "leading dot" /\ tkn # <<>> /\ tkn[1] = "."
        \/ d = "trailing dot" /\ tkn # <<>> /\ tkn[Len(tkn)] = "."
        \/ d = "consecutive dots"
               /\ \E i \in 1..(Len(tkn) - 1) : tkn[i] = "." /\ tkn[i + 1] = "."
        \/ d = "registered" /\ tkn \in tokens}

\* C13, without the reasons: RegisterInjectionToken rejects, as a fatal
\* condition and leaving the set as it is, the empty token, a token with a
\* leading, a trailing or two consecutive dots and a token that is in the
\* set; it accepts any other, returns it unchanged and adds it to the set;
\* no token ever leaves the set.
TokenValidation ==
    LibStep =>
        /\ injectionTokenMap \subseteq injectionTokenMap'
        /\ IF Defects(out'.tkn, injectionTokenMap) # {}
           THEN out'.kind = "panic" /\ injectionTokenMap' = injectionTokenMap
           ELSE /\ out'.kind = "ok" /\ out'.v = out'.tkn
                /\ injectionTokenMap' = injectionTokenMap \cup {out'.tkn}
        /\ (out'.kind = "panic" /\ Defects(out'.tkn, injectionTokenMap) = {"registered"})
               => out'.msg = AlreadyRegisteredMsg

\* Two calls in a row were rejected, each for one defect, not the same.
RejectedForTwoDefects ==
    /\ LibStep
    /\ out.op = "RegisterInjectionToken" /\ out.kind = "panic" /\ out'.kind = "panic"
    /\ Cardinality(Defects(out.tkn, injectionTokenMap)) = 1
    /\ Cardinality(Defects(out'.tkn, injectionTokenMap)) = 1
    /\ Defects(out.tkn, injectionTokenMap) # Defects(out'.tkn, injectionTokenMap)

\* C13: token validation as above, and each defect is rejected with a
\* reason of its own: two rejections for two different defects never give
\* the same reason.
C13_TokenValidationWithDistinctReasons ==
    [][TokenValidation /\ (RejectedForTwoDefects => out'.msg # out.msg)]_vars

-----------------------------------------------------------------------------
(* C14 (SpecPath) *)

\* C14: the lookup path is a function of the token and the fragment of the
\* opts: an error when both are empty; the fragment when the token is
\* empty; the token, a dot and the fragment when it is not; and never an
\* empty path without an error.
C14_LookupPathAssembly ==
    out.op = "assembleConfigurationLookupPath" =>
        /\ (out.token = <<>> /\ out.fragment = <<>>) => out.r.kind = "err"
        /\ (out.token = <<>> /\ out.fragment # <<>>) => out.r = LibOk(out.fragment)
        /\ out.token # <<>> => out.r = LibOk(out.token \o <<".">> \o out.fragment)
        /\ out.r.kind = "ok" => out.r.v # <<>>

\* The token a and the fragment a.a gave the path a.a.a.
C14_Witness ==
    /\ out.op = "assembleConfigurationLookupPath"
    /\ out.token = <<"a">> /\ out.fragment = <<"a", ".", "a">>
    /\ out.r.kind = "ok" /\ out.r.v = <<"a", ".", "a", ".", "a">>

-----------------------------------------------------------------------------
(* C15 (SpecLookup) *)

\* The json alias a field declares: its tag up to the first comma; none for
\* a field without a tag.
HasAlias(field, part) == field.tag # <<>> /\ Split(field.tag, ",")[1] = part

\* The walk the specification describes, from the i-th segment on: each
\* segment is resolved in the struct reached, through one pointer, by exact
\* field name first and by json alias only if no field has that name; it
\* ends with an error at a nil pointer, at a value that is not a struct and
\* at a segment that matches neither, and with the value reached otherwise.
RECURSIVE Resolved(_, _, _)
Resolved(current, parts, i) ==
    IF i > Len(parts) THEN LibOk(current)
    ELSE IF current.kind = "ptr" /\ current.fields = <<>> THEN LibErr("nil pointer")
    ELSE LET here == IF current.kind = "ptr" THEN current.fields[1].value ELSE current
             named == {k \in 1..Len(here.fields) : here.fields[k].name = parts[i]}
             aliased == {k \in 1..Len(here.fields) : HasAlias(here.fields[k], parts[i])}
         IN IF here.kind # "struct" THEN LibErr("not a struct")
            ELSE IF named # {} THEN Resolved(here.fields[FirstOf(named)].value, parts, i + 1)
            ELSE IF aliased # {}
            THEN Resolved(here.fields[FirstOf(aliased)].value, parts, i + 1)
            ELSE LibErr("no such field")

\* C15: ConfigurationNodeLookup returns the root for the empty path; for any
\* other path it never panics, it returns an error exactly when the walk of
\* the segments ends with one, and the value the walk reaches otherwise.
C15_NodeLookupWalksOrFails ==
    out.op = "ConfigurationNodeLookup" =>
        LET want == IF out.path = <<>> THEN LibOk(out.c)
                    ELSE Resolved(out.c, Split(out.path, "."), 1)
        IN /\ out.r.kind # "panic"
           /\ out.r.kind = want.kind
           /\ out.r.v = want.v

-----------------------------------------------------------------------------
(* C16 (SpecResolve) *)

-----------------------------------------------------------------------------
(* C17 (SpecResolve) *)

\* The path leads to a node of the tree: every part is a key of the mapping
\* reached by the parts before it.
RECURSIVE Leads(_, _, _)
Leads(node, parts, i) ==
    \/ i > Len(parts)
    \/ /\ node.t = "object"
       /\ parts[i] \in DOMAIN node.m
       /\ Leads(node.m[parts[i]], parts, i + 1)

\* The skeleton of a text: its tree with null where its placeholders stand.
Skeleton(jsonStr) == Unmarshal(Nulled(makeJSONValid(jsonStr)))

\* A placeholder of the text has a path that does not lead to a node.
HasUnresolvable(jsonStr) ==
    /\ Skeleton(jsonStr).ok
    /\ \E i \in 1..Len(Matches(jsonStr)) :
           ~Leads(Skeleton(jsonStr).v, Matches(jsonStr)[i].path, 1)

\* C17: if a placeholder of the text has a path that does not resolve,
\* ResolveDIReferences returns an error and no text.
C17_UnresolvableFailsTheWhole ==
    (out.op = "ResolveDIReferences" /\ HasUnresolvable(out.doc))
        => (out.r.kind = "err" /\ out.r.v = <<>>)

\* The text had two placeholders: the first one resolves, the second one,
\* in another spelling, does not; the resolution failed.
C17_Witness ==
    /\ out.op = "ResolveDIReferences" /\ out.r.kind = "err"
    /\ LET ms == Matches(out.doc)
       IN /\ Len(ms) = 2
          /\ Leads(Skeleton(out.doc).v, ms[1].path, 1)
          /\ ~Leads(Skeleton(out.doc).v, ms[2].path, 1)
          /\ \E i \in 2..Len(out.doc) : <<out.doc[i]>> = ms[1].lit /\ out.doc[i - 1] = Quote
          /\ \E i \in 2..Len(out.doc) : <<out.doc[i]>> = ms[2].lit /\ out.doc[i - 1] = Blank

-----------------------------------------------------------------------------
(* C18 (SpecResolve) *)

\* The i-th lexeme is outside a string literal / is all of a string literal.
QuotesBefore(text, i) == Cardinality({k \in 1..(i - 1) : text[k] = Quote})
BareAt(text, i) == QuotesBefore(text, i) % 2 = 0
QuotedAt(text, i) ==
    /\ 1 < i /\ i < Len(text)
    /\ text[i - 1] = Quote /\ text[i + 1] = Quote
    /\ QuotesBefore(text, i) % 2 = 1

\* The occurrences of placeholders that stand where a value is expected, in
\* the bare or in the quoted spelling.
ValueSpelled(text) ==
    {i \in 1..Len(text) :
        text[i].k = "placeholder" /\ (BareAt(text, i) \/ QuotedAt(text, i))}

\* The text in which every such occurrence is a string literal that names
\* the placeholder, and its tree: the locations where the placeholders stood.
Located(text) ==
    Join([i \in 1..Len(text) |->
             IF i \notin ValueSpelled(text) THEN <<text[i]>>
             ELSE IF BareAt(text, i) THEN <<Quote, Letters(text[i].s), Quote>>
             ELSE <<Letters(text[i].s)>>],
         1, Len(text))

Locations(text) == Unmarshal(Located(text))

\* The node of a tree a path leads to.
RECURSIVE NodeAt(_, _, _)
NodeAt(node, parts, i) ==
    IF i > Len(parts) THEN node ELSE NodeAt(node.m[parts[i]], parts, i + 1)

\* At every location of where, tree holds the node of ref the path of the
\* placeholder that stood there leads to.
RECURSIVE HoldsAt(_, _, _, _)
HoldsAt(where, tree, ref, placeholders) ==
    IF where.t = "object"
    THEN /\ tree.t = "object"
         /\ \A k \in DOMAIN where.m :
                /\ k \in DOMAIN tree.m
                /\ HoldsAt(where.m[k], tree.m[k], ref, placeholders)
    ELSE \A ph \in placeholders :
            (where.t = "string" /\ where.s = ph.s)
                => (Leads(ref, ph.path, 1) /\ tree = NodeAt(ref, ph.path, 1))

PlaceholdersOf(text) == {text[i] : i \in ValueSpelled(text)}

\* C18 as stated: after a successful resolution of a text with a placeholder
\* in the quoted or the bare spelling, the output parses to a tree that
\* holds, wherever such a placeholder stood, the node its path leads to in
\* the resolved document.
C18_LocationsHoldTheNode ==
    (/\ out.op = "ResolveDIReferences" /\ out.r.kind = "ok"
     /\ ValueSpelled(out.doc) # {})
        => /\ Unmarshal(out.r.v).ok
           /\ HoldsAt(Locations(out.doc).v, Unmarshal(out.r.v).v,
                      Unmarshal(out.r.v).v, PlaceholdersOf(out.doc))

\* C18, amended: after a successful resolution of a text in which every
\* occurrence of a placeholder stands where a value is expected, in the
\* quoted or the bare spelling, the output parses to a tree that holds,
\* wherever a placeholder stood, the node its path leads to in the skeleton
\* of the text (null where that node is, or holds, a placeholder itself).
C18_LocationsHoldTheSkeletonNode ==
    (/\ out.op = "ResolveDIReferences" /\ out.r.kind = "ok"
     /\ ValueSpelled(out.doc) # {}
     /\ Len(Matches(out.doc)) = Cardinality(ValueSpelled(out.doc)))
        => /\ Unmarshal(out.r.v).ok
           /\ HoldsAt(Locations(out.doc).v, Unmarshal(out.r.v).v,
                      Skeleton(out.doc).v, PlaceholdersOf(out.doc))

\* {"$shared": {"cache": {"host": "h"}}, "svc": {"cache": "${di.$shared.cache}"},
\* "b": ${di.$shared.cache.host}} was resolved: svc.cache is {"host": "h"}
\* and b is "h".
C18_Witness ==
    /\ out.op = "ResolveDIReferences" /\ out.r.kind = "ok"
    /\ out.doc = Document(<<LBrace, Quote, Letters("host"), Quote, Colon, Blank,
                            Quote, Letters("h"), Quote, RBrace>>,
                          QuotedSpelling(Placeholder("${di.$shared.cache}", <<"$shared", "cache">>)),
                          BareSpelling(Placeholder("${di.$shared.cache.host}",
                                                   <<"$shared", "cache", "host">>)))
    /\ Unmarshal(out.r.v).ok
    /\ Unmarshal(out.r.v).v.m["svc"].m["cache"] = JObject("host" :> JString("h"))
    /\ Unmarshal(out.r.v).v.m["b"] = JString("h")

-----------------------------------------------------------------------------
(* C19 (SpecNew) *)

\* The argument of a kind in the last call, if one was given.
GivenOf(kind) == {a \in {out.args[i] : i \in DOMAIN out.args} : a.kind = kind}

\* What the new Context exposes for a kind: the argument of that kind if one
\* was given, else what the parent exposes, else the default.
Exposed(kind, ofParent, default) ==
    IF GivenOf(kind) # {} THEN (CHOOSE a \in GivenOf(kind) : TRUE).v
    ELSE IF GivenOf("Context") # {} THEN ofParent
    ELSE default

ParentOfLast == (CHOOSE a \in GivenOf("Context") : TRUE).v

\* The raw tree that goes with what is given: the raw tree given, else the
\* one decoded from the Configuration given, else the one of the parent.
ExposedRaw ==
    IF GivenOf("ConfigRawData") = {} /\ GivenOf("Configuration") # {}
    THEN Decode((CHOOSE a \in GivenOf("Configuration") : TRUE).v).v
    ELSE Exposed("ConfigRawData", ParentOfLast.rawCfg, RawData(<<>>))

\* A Configuration given can be decoded into a raw tree, and is not given
\* together with a raw tree.
Decodable ==
    \A a \in GivenOf("Configuration") :
        Decode(a.v).kind = "ok" /\ GivenOf("ConfigRawData") = {}

\* C19: the Context NewContext builds from a parent exposes, for the raw
\* tree, the typed Configuration and the inner context independently, the
\* argument of that kind if one is given and what the parent carries
\* otherwise (a raw tree given with a parent is the new RawConfiguration()
\* whatever the parent carries, none of the parent's keys remain), and the
\* order of the arguments does not change the result.
C19_InheritsUnlessOverridden ==
    (out.op = "NewContext" /\ GivenOf("Context") # {} /\ Decodable) =>
        /\ out.r.kind = "ok"
        /\ out.r.v.rawCfg = ExposedRaw
        /\ out.r.v.cfg = Exposed("Configuration", ParentOfLast.cfg, NilConfiguration)
        /\ out.r.v.ctx = Exposed("goctx.Context", ParentOfLast.ctx, Background)
        /\ \A args \in Orderings({out.args[i] : i \in DOMAIN out.args}) :
               NewContext(args) = out.r

-----------------------------------------------------------------------------
(* C20 (SpecConc) *)

\* The step replaces no stored hot instance.
KeepsTheStored ==
    \A key \in DOMAIN hotInstances :
        key \in DOMAIN hotInstances' /\ hotInstances'[key] = hotInstances[key]

\* A goroutine whose creation call completes in the step with a value, for
\* a cache key that holds a hot instance, returns that instance (where the
\* factory builds a value of the type asked for, so that none is converted).
ReturnsTheStored ==
    \A g \in DOMAIN gor :
        (/\ gor[g].pc = "assert" /\ gor'[g].pc = "done" /\ gor'[g].kind = "ok"
         /\ DirectAssert(gor[g].T, gor[g].v)
         /\ HotKey(Opts(gor[g].tok), registrations[gor[g].key].typeName)
                \in DOMAIN hotInstances)
            => gor'[g].v = hotInstances[HotKey(Opts(gor[g].tok),
                                               registrations[gor[g].key].typeName)]

\* C20: once a hot instance is stored for a cache key, no step of any
\* creation call replaces it, and every creation call for that key that
\* completes afterwards returns that stored instance, under every
\* interleaving of the calls.
C20_StoredInstanceIsNeverReplaced == [][KeepsTheStored /\ ReturnsTheStored]_vars

-----------------------------------------------------------------------------
(* C21 (SpecPair) *)

\* The step is a top-level CreatePair call that returned.
PairStep == last'.n = last.n + 1 /\ last'.op = "CreatePair"

\* The factory invocations of the call of the step, in a namespace.
InvokedIn(ns) ==
    {i \in (Len(invlog) + 1)..Len(invlog') : invlog'[i].fid.ns = ns}

\* The cache keys of the two sides of the pair of the call of the step.
SideKey(first, second) ==
    HotKey(Opts(last'.tok),
           PairTypeName(TypeName(first, last'.tok), TypeName(second, last'.tok)))
ConfigurationKey == SideKey(last'.CT, last'.T)
InstanceKey == SideKey(last'.T, last'.CT)

Sentinel(CT) == CT \in {NoConfigVal, NoConfigPtr}

\* The call of the step with a configuration type: the configuration
\* factory is invoked before the instance factory, which is handed the
\* configuration value of the pair.
ConfigurationFirst ==
    \A i \in InvokedIn("pair") :
        /\ \A j \in InvokedIn("paircfg") : j < i
        /\ ConfigurationKey \in DOMAIN hotInstances'
        /\ invlog'[i].cfg = hotInstances'[ConfigurationKey].content
        /\ invlog'[i].cfg # 0

\* The call of the step whose configuration could not be created: the error
\* is returned, the instance factory is not invoked and the instance key is
\* cached no more than before.
ConfigurationFailed ==
    ConfigurationKey \notin DOMAIN hotInstances' =>
        /\ last'.kind = "err"
        /\ InvokedIn("pair") = {}
        /\ InstanceKey \in DOMAIN hotInstances' => InstanceKey \in DOMAIN hotInstances

\* C21: CreatePair with a configuration type creates the configuration
\* before the instance and hands that configuration to the instance
\* factory; if the configuration fails the error is returned, the instance
\* factory is not invoked and nothing is cached for the instance key; with
\* the NoConfig sentinel no configuration factory is invoked.
C21_ConfigurationSideFirst ==
    [][PairStep =>
          IF Sentinel(last'.CT) THEN InvokedIn("paircfg") = {}
          ELSE ConfigurationFirst /\ ConfigurationFailed]_vars

\* A CreatePair with a configuration type invoked the configuration factory
\* and then the instance factory, with the configuration just built.
C21_Witness ==
    /\ last.op = "CreatePair" /\ last.CT = CfgVal /\ last.kind = "ok"
    /\ Len(invlog) = last.from + 1
    /\ invlog[last.from].fid.ns = "paircfg"
    /\ invlog[last.from + 1].fid.ns = "pair"
    /\ invlog[last.from + 1].cfg = last.from

-----------------------------------------------------------------------------
(* C22 (SpecPair) *)

\* The instance a CreatePair call asked for is the pointer form or the value
\* form of the instance registered under the pair's key.
OtherFormRegistered ==
    /\ last.op = "CreatePair"
    /\ last.reg # NoFid
    /\ \E key \in DOMAIN registrations :
           /\ registrations[key].fid = last.reg
           /\ registrations[key].rtype.name = last.T.name
           /\ registrations[key].rtype.ptr # last.T.ptr

\* C22: CreatePair converts between the pointer form and the value form of
\* the instance type as Create does: a CreatePair asking for the other form
\* of the registered instance type does not end in the type-mismatch failure.
C22_PairCoerces ==
    OtherFormRegistered =>
        ~(last.kind = "panic" /\ Has(last.err, DependencyTypeMismatchErrorCode))

-----------------------------------------------------------------------------
(* C23 (SpecCtx) *)

\* The namespaces of the factories an entry point invokes.
InvokedBy(op) ==
    IF op = "Create" THEN {"inst", "raw"}
    ELSE IF op = "CreateConfiguration" THEN {"cfg"}
    ELSE {"pair", "paircfg"}

\* The breadcrumbs a call hands on: the caller's, and the call's token when
\* it is not empty.
HandedOn(call) ==
    call.before \o (IF call.tok = "" THEN <<>> ELSE <<call.tok>>)

\* C23: every factory invoked by a Create, CreatePair or CreateConfiguration
\* call, of the client or of a factory, is handed the breadcrumbs of that
\* call's caller with the call's token appended when it is not empty.
C23_FactoryIsHandedCallersPlusToken ==
    \A k \in LastInvocations :
        \E i \in DOMAIN last.calls :
            /\ invlog[k].fid.ns \in InvokedBy(last.calls[i].op)
            /\ invlog[k].crumbs = HandedOn(last.calls[i])

-----------------------------------------------------------------------------
(* C24 (SpecCfgLookup) *)

\* The elements of a path, joined by dots.
RECURSIVE Dotted(_)
Dotted(parts) ==
    IF parts = <<>> THEN <<>>
    ELSE IF Len(parts) = 1 THEN parts[1]
    ELSE parts[1] \o <<".">> \o Dotted(Tail(parts))

\* The path the specification gives a lookup: the breadcrumbs of the context
\* followed by the path fragment of the opts.
BreadcrumbPath(ctx, fragment) ==
    Dotted(ctx.crumbs \o (IF fragment = <<>> THEN <<>> ELSE <<fragment>>))

\* The lookup reached LookupNode.
Addressed(o) ==
    /\ o.op = "ConfigurationLookup"
    /\ ~o.ctx.nil /\ o.ctx.cfg # NilInterface
    /\ assembleConfigurationLookupPath(PathOpts(o.token, o.fragment)).kind = "ok"

\* C24: the node a ConfigurationLookup addresses is the one at the
\* breadcrumbs of its context followed by the path fragment of its opts, so
\* that two lookups in one configuration with equal opts and different
\* breadcrumbs address different nodes.
C24_BreadcrumbsPrefixTheLookup ==
    [][Addressed(out') =>
          /\ out'.path = BreadcrumbPath(out'.ctx, out'.fragment)
          /\ (/\ Addressed(out)
              /\ out.token = out'.token /\ out.fragment = out'.fragment
              /\ out.ctx.cfg = out'.ctx.cfg
              /\ out.ctx.crumbs # out'.ctx.crumbs) => out.path # out'.path]_vars

-----------------------------------------------------------------------------
(* C25 (SpecResolve) *)

\* The text put in for every placeholder is the text of the node its path
\* leads to in the skeleton, where every placeholder is null.
FromTheSkeleton(jsonStr) ==
    \A k \in 1..Len(ReplacementsOf(jsonStr).v) :
        LET entry == ReplacementsOf(jsonStr).v[k]
        IN entry[2] = Marshal(NodeAt(Skeleton(jsonStr).v, entry[1].path, 1))

\* C25: a successful resolution puts in, for every placeholder, the node of
\* the skeleton of the original document, in one pass, and what is put in
\* for one placeholder does not depend on the substitution of another: the
\* text returned is the one every order of substituting the distinct
\* placeholders gives.
C25_SameForEveryOrder ==
    (out.op = "ResolveDIReferences" /\ out.r.kind = "ok")
        => /\ FromTheSkeleton(out.doc)
           /\ \A order \in RangeOrders(out.doc) :
                  ResolveDIReferences(out.doc, order) = out.r

-----------------------------------------------------------------------------
(* C26 (SpecResolve) *)

\* C26: the text a successful resolution returns holds no ${di.<path>}
\* placeholder, whatever the document and the spellings of its placeholders.
C26_NoPlaceholderIsLeft ==
    (out.op = "ResolveDIReferences" /\ out.r.kind = "ok") => Matches(out.r.v) = <<>>

-----------------------------------------------------------------------------
(* C27 (SpecCycle) *)

\* C27: every creation call returns a value or an error, also when the
\* factories create each other in a cycle: no call ends by exhausting the
\* stack in creations nested without end.
C27_EveryCallReturns ==
    last.n > 0 => (last.kind \in {"ok", "err"} /\ ~crashed)

-----------------------------------------------------------------------------
(* C28 (SpecStore) *)

\* The cache key under which the wrapper of a factory invocation of the
\* step stores a value.
KeyOfInvocation(k) == HotKey(Opts(invlog'[k].tok), invlog'[k].typeName)

\* A factory invocation of the call of the step returned an error: the call
\* returns an error to its caller.
FailureIsReturned == last'.failed # {} => last'.kind = "err"

\* The cache is left as it was under the key of every factory invocation of
\* the step that returned an error: nothing is stored for it.
FailureStoresNothing ==
    \A k \in last'.failed :
        IF KeyOfInvocation(k) \in DOMAIN hotInstances
        THEN /\ KeyOfInvocation(k) \in DOMAIN hotInstances'
             /\ hotInstances'[KeyOfInvocation(k)] = hotInstances[KeyOfInvocation(k)]
        ELSE KeyOfInvocation(k) \notin DOMAIN hotInstances'

\* The call of the step repeats the call before it, in which factory
\* invocations returned an error, the registry being as it was: each of
\* those factories is invoked again.
FailureIsRetried ==
    (/\ last'.op = last.op /\ last'.T = last.T /\ last'.tok = last.tok
     /\ last.regs = nregs)
        => \A f \in last.failed :
               \E k \in (Len(invlog) + 1)..Len(invlog') : invlog'[k].fid = invlog[f].fid

\* The value cached under a key was returned by a factory invocation made
\* for that key.
BuiltForItsKey(key) ==
    /\ hotInstances'[key].content \in DOMAIN invlog'
    /\ KeyOfInvocation(hotInstances'[key].content) = key

\* Every value in the cache was returned by a factory invocation made for
\* its key.
OnlyBuiltValues == \A key \in DOMAIN hotInstances' : BuiltForItsKey(key)

\* C28: a factory invocation that returns an error stores nothing in the
\* hot-instance cache: the error is returned to the caller, the cache is
\* left as it was, and the next creation for the same key invokes the
\* factory again; at every moment the cache holds only values returned by
\* successful factory invocations.
C28_FailureIsNotCached ==
    [][/\ CallStep => (FailureIsReturned /\ FailureStoresNothing /\ FailureIsRetried)
       /\ OnlyBuiltValues]_vars

-----------------------------------------------------------------------------
(* C29 (SpecNode) *)

\* Every cached value is under the key of the type name and the token of
\* the invocation that built it, whatever the configuration node path and
\* the configuration node.
KeyedByTypeAndToken ==
    \A key \in DOMAIN hotInstances' :
        LET built == Builder(invlog', hotInstances'[key])
        IN key = (IF built.tok = "" THEN built.typeName
                  ELSE built.tok \o ":" \o built.typeName)

\* The call of the step repeats, but for its configuration node path and
\* its configuration node, the call before it, which returned a value, the
\* registry being as it was.
SameButForThePath ==
    /\ last.kind = "ok"
    /\ last'.op = last.op /\ last'.T = last.T /\ last'.tok = last.tok
    /\ last.regs = nregs

\* C29: the hot-instance cache key is built from the type key and the token
\* only, not from the configuration node path nor from the configuration
\* node: a creation of the same type with the same token and another path
\* or node invokes no factory and returns the cached instance, which was
\* built with the path and the node of the call that ran first.
C29_PathIsNotInTheKey ==
    [][CallStep =>
          /\ KeyedByTypeAndToken
          /\ SameButForThePath =>
                 /\ last'.kind = "ok" /\ last'.v = last.v
                 /\ invlog' = invlog]_vars

\* A creation with the path session_cache returned the instance a creation
\* of the type with the path cache had built, and invoked no factory.
C29_Witness ==
    /\ last.op = "Create" /\ last.kind = "ok" /\ last.path = "session_cache"
    /\ last.from > Len(invlog)
    /\ BuiltBy(last.v).path = "cache"
    /\ BuiltBy(last.v).tok = last.tok

-----------------------------------------------------------------------------
(* C30 (Spec) *)

\* The call returned a pointer to a cached instance that its factory gave
\* as a value.
PointerToCachedValue(call, hot) ==
    /\ call.op = "Create" /\ call.kind = "ok" /\ call.T.ptr
    /\ \E key \in DOMAIN hot : hot[key].content = call.v.content /\ ~hot[key].ptr

\* C30: the singleton stays one instance under the conversion between X and
\* *X: when the factory of a type gives a value X, two creations that ask
\* for *X under the same token get the same pointer.
C30_CoercionKeepsIdentity ==
    [][(/\ CallStep
        /\ PointerToCachedValue(last, hotInstances)
        /\ PointerToCachedValue(last', hotInstances')
        /\ last'.T = last.T /\ last'.tok = last.tok
        /\ last'.v.content = last.v.content)
       => last'.v.id = last.v.id]_vars

====
